---- MODULE Spec2Model ----
(***************************************************************************)
(* A model of asyncssh's SSH channel (src/asyncssh/channel.py): the        *)
(* per-channel send and receive state machines, the send and receive       *)
(* windows, the buffered I/O, the request queue and the open / close       *)
(* handshake of class SSHChannel and of its client and server variants.    *)
(*                                                                         *)
(* The channel object is a record (Chan) whose fields are the object's     *)
(* attributes plus the environment it acts on: the packets handed to the   *)
(* connection (out), the callbacks made on the session (calls), the        *)
(* futures callers wait on and the event loop's queue of scheduled         *)
(* _cleanup callbacks (ready).  Every method is an operator from record    *)
(* to record, composed as the Python code composes its calls; an exception *)
(* is the field raised, which makes every later step of the call a no-op   *)
(* (the exception unwinds the call; what was assigned before stays).       *)
(***************************************************************************)
EXTENDS Integers, Sequences, FiniteSets, TLC

\* ---------------------------------------------------------------- bounds
MaxWindow     == 2    \* largest send window the peer ever grants
MaxPktsize    == 2    \* largest send_pktsize the peer advertises
MaxAdjust     == 1    \* largest single WINDOW_ADJUST of the peer
MaxWritten    == 3    \* bytes the session writes in all
MaxWriteLen   == 2    \* bytes of one write()
MaxRecvWindow == 2    \* largest init_recv_window
MaxInbound    == 2    \* inbound DATA / EXTENDED_DATA packets
MaxInLen      == 2    \* bytes of one inbound packet
MaxInClose    == 1    \* inbound CHANNEL_CLOSE messages
MaxRequests   == 1    \* channel requests sent without a waiter
MaxWaiters    == 3    \* channel requests sent with a waiter
MaxResponses  == 3    \* inbound CHANNEL_SUCCESS / CHANNEL_FAILURE
MaxInRequests == 1    \* inbound CHANNEL_REQUEST messages
MaxHighWater  == 1    \* largest water mark given to set_write_buffer_limits
MaxInOpen == 2           \* inbound CHANNEL_OPEN handled by one channel
MaxCloseAgain == 2       \* inbound CHANNEL_CLOSE where the peer repeats it
MaxTeardownWaiters == 2  \* futures where teardown is explored
MaxTeardownResponses == 1
MaxInSessionRequests == 2  \* inbound shell / exec / subsystem requests
MaxLoopOut    == 8    \* packets sent before the loop is cut off
MaxMarkCalls  == 1    \* pause_writing calls before the marks stay
MaxEnv == 1              \* variables in the env given to create()
MaxWriterCalls == 3   \* pause_writing / resume_writing calls before the
                      \* water marks are left alone

\* ------------------------------------------------------ program constants
None                 == -1      \* Python's None (integer fields, datatype)
EXTENDED_DATA_STDERR == 1
DefaultHighWater     == 65536   \* set_write_buffer_limits(): high
EOF                  == <<0>>   \* the _EOF marker; data bytes are >= 1

PTY_OP_END           == 0
PTY_OP_RESERVED      == 160

Datatypes == {None, EXTENDED_DATA_STDERR}
Closing   == {"close_pending", "close_sent", "closed"}

\* _read_datatypes / _write_datatypes of the channel classes
ReadDatatypes(kind)  == IF kind = "client" THEN {EXTENDED_DATA_STDERR} ELSE {}
WriteDatatypes(kind) == IF kind = "server" THEN {EXTENDED_DATA_STDERR} ELSE {}

Min(a, b) == IF a < b THEN a ELSE b

Pkt(type, data, datatype, n) ==
    [type |-> type, data |-> data, datatype |-> datatype, n |-> n]

Call(name, data, datatype) ==
    [call |-> name, data |-> data, datatype |-> datatype]

\* bytes lo..hi, each byte named by its serial number
Bytes(lo, hi) == [i \in 1..(hi - lo + 1) |-> lo + i - 1]

RECURSIVE Concat(_)
Concat(items) ==
    IF items = <<>> THEN <<>> ELSE Head(items).data \o Concat(Tail(items))

RECURSIVE SelectType(_, _)
SelectType(pkts, types) ==
    IF pkts = <<>> THEN <<>>
    ELSE (IF Head(pkts).type \in types THEN <<Head(pkts)>> ELSE <<>>)
         \o SelectType(Tail(pkts), types)

\* the names of the calls among names, in call order
RECURSIVE CallNames(_, _)
CallNames(cs, names) ==
    IF cs = <<>> THEN <<>>
    ELSE (IF Head(cs).call \in names THEN <<Head(cs).call>> ELSE <<>>)
         \o CallNames(Tail(cs), names)

WriterCalls(cs) == CallNames(cs, {"pause_writing", "resume_writing"})

IsPrefix(s, t) == Len(s) <= Len(t) /\ s = SubSeq(t, 1, Len(s))

\* ----------------------------------------------------------------- state
VARIABLES
    kind,              \* "client" (SSHClientChannel) / "server" (SSHServerChannel)
    peer_window,       \* the initial window the peer advertises when opening
    peer_pktsize,      \* the maximum packet size the peer advertises
    conn,              \* self._conn is not None
    session,           \* self._session is not None
    send_state, send_chan, send_window, send_pktsize,
    send_paused, send_buf, send_buf_len,
    send_high_water, send_low_water,
    recv_state, init_recv_window, recv_window, recv_paused, recv_buf,
    open_waiter,       \* "None" / "pending" / "cancelled"
    request_waiters,   \* the waiters' ids, in queue order
    futures,           \* the request futures by id:
                       \*   "pending" / "cancelled" / "true" / "false" /
                       \*   "exception" / "none" (set_exception(None) stored)
    pc,                \* where create() or _finish_open_request() stands
    shell_waiter,      \* the future create() waits on for its session
                       \* request (exec, subsystem or shell)
    ready,             \* _cleanup callbacks scheduled with loop.call_soon
    disconnected,      \* a protocol error was raised to the connection
    out,               \* packets handed to conn.send_packet, in order
    calls,             \* callbacks made on the session, in order
    raised,            \* the exception the last call raised, or "none"
    written,           \* items (data, datatype) accepted by write(), in order
    peer_sent,         \* inbound DATA / EXTENDED_DATA packets, in order
    accepted,          \* inbound items _accept_data buffered or delivered
    since_adjust,      \* bytes accepted since the last WINDOW_ADJUST sent
    responses,         \* inbound SUCCESS / FAILURE that were processed
    granted,           \* send window granted by the peer in all
    aborted_at,        \* Len(out) when abort() sent its CLOSE, else 0
    close_at,          \* Len(out) when close() set close_pending, else 0
    drain_cut,         \* a resume_reading drain was stopped by a new pause
    closes_in,         \* inbound CHANNEL_CLOSE messages so far
    requests_in,       \* inbound CHANNEL_REQUEST messages so far
    close_waiters,     \* ids of the futures wait_closed() awaits, in order
    open_result,       \* how the caller of _open was resumed, or "none"
    recv_chan,         \* the number add_channel gave, None once removed
    removed,           \* conn.remove_channel calls so far
    lost,              \* the exc of each session.connection_lost call
    awaited,           \* ids of the futures a caller is suspended on
    finishing,         \* _finish_open_request tasks not yet run
    create_args,       \* what create() was called with (env, term_type,
                       \* term_modes, command / subsystem)
    pty_waiter,        \* the future create() waits on for its pty-req
    exit_status,       \* SSHClientChannel._exit_status
    options,           \* the connection's certificate option
                       \* 'force-command' and key options 'command', 'pty'
    term_modes,        \* SSHServerChannel._term_modes
    dispatched,        \* packets of the other end routed to this channel
    exit_arg,          \* the status exit() was called with, None before
    last_request,      \* the request _process_request was last handed
    limits_arg,        \* <<high, low>> of the last set_write_buffer_limits
                       \* call, <<>> before the first
    encoding,          \* self._encoding is set (to 'utf-8')
    recv_partial,      \* self._recv_partial: the undecoded tail by datatype
    term_type,         \* SSHServerChannel._term_type, "None" for None
    term_size,         \* SSHServerChannel._term_size
    no_session,        \* the last call tried a callback on a session that
                       \* is None
    peer               \* the channel at the other end of the connection,
                       \* as a record like Chan, where both ends are modelled

own == <<kind, peer_window, peer_pktsize, conn, session, send_state, send_chan, send_window,
          send_pktsize, send_paused, send_buf, send_buf_len,
          send_high_water, send_low_water, recv_state, init_recv_window,
          recv_window, recv_paused, recv_buf, open_waiter, request_waiters,
          futures, pc, shell_waiter, ready, disconnected, out, calls, raised, written,
          peer_sent, accepted, since_adjust, responses, granted,
          aborted_at, close_at, drain_cut, closes_in, requests_in,
          close_waiters, open_result, recv_chan, removed, lost,
         awaited, finishing, create_args, pty_waiter, exit_status,
         options, term_modes, dispatched, exit_arg, last_request,
         limits_arg, encoding, recv_partial, term_type, term_size,
         no_session>>

vars == <<own, peer>>

\* the channel and its environment as one record
Chan ==
    [kind |-> kind, conn |-> conn, session |-> session,
     send_state |-> send_state, send_chan |-> send_chan,
     send_window |-> send_window, send_pktsize |-> send_pktsize,
     send_paused |-> send_paused, send_buf |-> send_buf,
     send_buf_len |-> send_buf_len,
     send_high_water |-> send_high_water, send_low_water |-> send_low_water,
     recv_state |-> recv_state, init_recv_window |-> init_recv_window,
     recv_window |-> recv_window, recv_paused |-> recv_paused,
     recv_buf |-> recv_buf, open_waiter |-> open_waiter,
     request_waiters |-> request_waiters, futures |-> futures, pc |-> pc,
     shell_waiter |-> shell_waiter,
     ready |-> ready, disconnected |-> disconnected, out |-> out,
     calls |-> calls, raised |-> "none", written |-> written,
     peer_sent |-> peer_sent, accepted |-> accepted,
     since_adjust |-> since_adjust, responses |-> responses,
     granted |-> granted, aborted_at |-> aborted_at,
     close_at |-> close_at,
     drain_cut |-> drain_cut,
     closes_in |-> closes_in, requests_in |-> requests_in,
     close_waiters |-> close_waiters, open_result |-> open_result,
     recv_chan |-> recv_chan, removed |-> removed, lost |-> lost,
     awaited |-> awaited, finishing |-> finishing,
     create_args |-> create_args, pty_waiter |-> pty_waiter,
     exit_status |-> exit_status, options |-> options,
     term_modes |-> term_modes, dispatched |-> dispatched,
     exit_arg |-> exit_arg, last_request |-> last_request,
     limits_arg |-> limits_arg, encoding |-> encoding,
     recv_partial |-> recv_partial, term_type |-> term_type,
     term_size |-> term_size, no_session |-> FALSE]

\* the state after a call that left the record c
Becomes(c) ==
    /\ UNCHANGED <<kind, peer_window, peer_pktsize>>
    /\ conn' = c.conn /\ session' = c.session
    /\ send_state' = c.send_state /\ send_chan' = c.send_chan
    /\ send_window' = c.send_window /\ send_pktsize' = c.send_pktsize
    /\ send_paused' = c.send_paused /\ send_buf' = c.send_buf
    /\ send_buf_len' = c.send_buf_len
    /\ send_high_water' = c.send_high_water
    /\ send_low_water' = c.send_low_water
    /\ recv_state' = c.recv_state
    /\ init_recv_window' = c.init_recv_window
    /\ recv_window' = c.recv_window /\ recv_paused' = c.recv_paused
    /\ recv_buf' = c.recv_buf /\ open_waiter' = c.open_waiter
    /\ request_waiters' = c.request_waiters /\ futures' = c.futures
    /\ pc' = c.pc /\ ready' = c.ready
    /\ shell_waiter' = c.shell_waiter
    /\ disconnected' = (c.disconnected \/ c.raised = "DisconnectError")
    /\ out' = c.out /\ calls' = c.calls /\ raised' = c.raised
    /\ written' = c.written /\ peer_sent' = c.peer_sent
    /\ accepted' = c.accepted /\ since_adjust' = c.since_adjust
    /\ responses' = c.responses /\ closes_in' = c.closes_in
    /\ requests_in' = c.requests_in /\ granted' = c.granted
    /\ aborted_at' = c.aborted_at /\ drain_cut' = c.drain_cut
    /\ close_at' = c.close_at
    /\ close_waiters' = c.close_waiters /\ open_result' = c.open_result
    /\ recv_chan' = c.recv_chan /\ removed' = c.removed /\ lost' = c.lost
    /\ awaited' = c.awaited /\ finishing' = c.finishing
    /\ create_args' = c.create_args /\ pty_waiter' = c.pty_waiter
    /\ exit_status' = c.exit_status /\ options' = c.options
    /\ term_modes' = c.term_modes /\ dispatched' = c.dispatched
    /\ exit_arg' = c.exit_arg /\ last_request' = c.last_request
    /\ limits_arg' = c.limits_arg
    /\ encoding' = c.encoding /\ recv_partial' = c.recv_partial
    /\ term_type' = c.term_type /\ term_size' = c.term_size
    /\ no_session' = c.no_session
    /\ peer' = peer

\* the local channel numbers conn.add_channel may give
RecvChans == {0, 1}

Raise(c, exc) == IF c.raised = "none" THEN [c EXCEPT !.raised = exc] ELSE c

\* create() called without env, terminal, command or subsystem
NoArgs ==
    [env |-> 0, term_type |-> FALSE, term_modes |-> <<>>,
     request |-> "shell"]

\* the options of the connection's key and certificate that a channel
\* reads: certificate option 'force-command' and key option 'command'
\* ("None" when not set), and whether both permit 'pty'
Options ==
    [force_command : {"None", "cert-command"},
     command : {"None", "key-command"},
     pty : BOOLEAN]

NoOptions == [force_command |-> "None", command |-> "None", pty |-> TRUE]

\* no request was processed yet
NoRequest == [request |-> "None", args |-> <<>>]

\* SSHChannel.__init__ for a channel of the given kind, window and number,
\* as a record
InitChan(k, window, chan, opts) ==
    [kind |-> k, conn |-> TRUE, session |-> FALSE,
     send_state |-> "closed", send_chan |-> None,
     send_window |-> None, send_pktsize |-> None,
     send_paused |-> FALSE, send_buf |-> <<>>, send_buf_len |-> 0,
     send_high_water |-> DefaultHighWater,
     send_low_water |-> DefaultHighWater \div 4,
     recv_state |-> "closed", init_recv_window |-> window,
     recv_window |-> window, recv_paused |-> TRUE, recv_buf |-> <<>>,
     open_waiter |-> "None", request_waiters |-> <<>>, futures |-> <<>>,
     pc |-> "start", shell_waiter |-> 0, ready |-> 0,
     disconnected |-> FALSE, out |-> <<>>, calls |-> <<>>,
     raised |-> "none", written |-> <<>>, peer_sent |-> <<>>,
     accepted |-> <<>>, since_adjust |-> 0, responses |-> <<>>,
     granted |-> 0, aborted_at |-> 0, close_at |-> 0, drain_cut |-> FALSE,
     closes_in |-> 0, requests_in |-> 0, close_waiters |-> <<>>,
     open_result |-> "none", recv_chan |-> chan, removed |-> 0,
     lost |-> <<>>, awaited |-> {}, finishing |-> 0,
     create_args |-> NoArgs, pty_waiter |-> 0, exit_status |-> None,
     options |-> opts, term_modes |-> <<>>, dispatched |-> 0,
     exit_arg |-> None, last_request |-> NoRequest, limits_arg |-> <<>>,
     encoding |-> FALSE, recv_partial |-> <<>>, term_type |-> "None",
     term_size |-> <<0, 0, 0, 0>>, no_session |-> FALSE]

\* no other end is modelled: the peer is the environment
NoPeer == [kind |-> "none"]

\* the server channels a client channel may be connected to
Peers ==
    {InitChan("server", window, 1, opts) :
         window \in 1..MaxRecvWindow, opts \in Options}

\* one channel against an environment, on a connection without forced
\* command, created without an encoding (the data is bytes)
Alone == peer = NoPeer /\ options = NoOptions /\ ~encoding

\* SSHChannel.__init__: the state after construction
InitSizes(windows, pktsizes) ==
    /\ kind \in {"client", "server", "tcp"}
    /\ peer_window \in 0..MaxWindow
    /\ peer_pktsize \in pktsizes
    /\ conn = TRUE /\ session = FALSE
    /\ send_state = "closed" /\ send_chan = None
    /\ send_window = None /\ send_pktsize = None
    /\ send_paused = FALSE /\ send_buf = <<>> /\ send_buf_len = 0
    /\ send_high_water = DefaultHighWater
    /\ send_low_water = DefaultHighWater \div 4
    /\ recv_state = "closed"
    /\ init_recv_window \in windows
    /\ recv_window = init_recv_window
    /\ recv_paused = TRUE /\ recv_buf = <<>>
    /\ open_waiter = "None" /\ request_waiters = <<>> /\ futures = <<>>
    /\ pc = "start" /\ shell_waiter = 0 /\ ready = 0 /\ disconnected = FALSE
    /\ out = <<>> /\ calls = <<>> /\ raised = "none"
    /\ written = <<>> /\ peer_sent = <<>> /\ accepted = <<>>
    /\ since_adjust = 0 /\ responses = <<>> /\ closes_in = 0
    /\ requests_in = 0 /\ granted = 0 /\ aborted_at = 0 /\ close_at = 0
    /\ drain_cut = FALSE
    /\ close_waiters = <<>> /\ open_result = "none"
    /\ recv_chan \in RecvChans /\ removed = 0 /\ lost = <<>>
    /\ awaited = {} /\ finishing = 0
    /\ create_args = NoArgs /\ pty_waiter = 0 /\ exit_status = None
    /\ options \in Options /\ term_modes = <<>> /\ dispatched = 0
    /\ exit_arg = None /\ last_request = NoRequest /\ limits_arg = <<>>
    /\ encoding \in BOOLEAN /\ recv_partial = <<>>
    /\ term_type = "None" /\ term_size = <<0, 0, 0, 0>>
    /\ no_session = FALSE
    /\ peer \in {NoPeer} \cup Peers

\* the channels whose peer advertises a packet size of at least 1
InitWindows(windows) == InitSizes(windows, 1..MaxPktsize)

Init == InitWindows(1..MaxRecvWindow)

\* ------------------------------------------------------------- send path

\* a callback on the session; without a session Python raises AttributeError
SessionCall(c, call) ==
    IF c.raised # "none" THEN c
    ELSE IF ~c.session
    THEN [Raise(c, "AttributeError") EXCEPT !.no_session = TRUE]
    ELSE [c EXCEPT !.calls = Append(@, call)]

\* SSHChannel._send_packet
SendPacket(c, pkt) ==
    IF c.raised # "none" THEN c
    ELSE IF c.send_chan = None THEN Raise(c, "OSError")
    ELSE IF ~c.conn THEN Raise(c, "AttributeError")
    ELSE [c EXCEPT !.out = Append(@, pkt),
                   !.since_adjust =
                       IF pkt.type = "WINDOW_ADJUST" THEN 0 ELSE @]

\* a writer that pauses as soon as the buffer reaches the high-water mark
PauseResumeWritingAtMark(c) ==
    IF c.raised # "none" THEN c
    ELSE IF c.send_paused
    THEN IF c.send_buf_len <= c.send_low_water
         THEN SessionCall([c EXCEPT !.send_paused = FALSE],
                          Call("resume_writing", <<>>, None))
         ELSE c
    ELSE IF c.send_buf_len >= c.send_high_water
         THEN SessionCall([c EXCEPT !.send_paused = TRUE],
                          Call("pause_writing", <<>>, None))
         ELSE c

\* SSHChannel._pause_resume_writing
PauseResumeWriting(c) ==
    IF c.raised # "none" THEN c
    ELSE IF c.send_paused
    THEN IF c.send_buf_len <= c.send_low_water
         THEN SessionCall([c EXCEPT !.send_paused = FALSE],
                          Call("resume_writing", <<>>, None))
         ELSE c
    ELSE IF c.send_buf_len > c.send_high_water
         THEN SessionCall([c EXCEPT !.send_paused = TRUE],
                          Call("pause_writing", <<>>, None))
         ELSE c

\* a set_write_buffer_limits that stores the marks before it checks them
SetWriteBufferLimitsUnchecked(c, high, low) ==
    LET h == IF high # None THEN high
             ELSE IF low # None THEN 4 * low ELSE DefaultHighWater
        l == IF low # None THEN low ELSE h \div 4
        c1 == [c EXCEPT !.send_high_water = h, !.send_low_water = l]
    IN IF ~(0 <= l /\ l <= h) THEN Raise(c1, "ValueError")
       ELSE PauseResumeWriting(c1)

\* SSHChannel.set_write_buffer_limits; high and low may be None
SetWriteBufferLimits(c, high, low) ==
    LET h == IF high # None THEN high
             ELSE IF low # None THEN 4 * low ELSE DefaultHighWater
        l == IF low # None THEN low ELSE h \div 4
    IN IF ~(0 <= l /\ l <= h) THEN Raise(c, "ValueError")
       ELSE PauseResumeWriting([c EXCEPT !.send_high_water = h,
                                         !.send_low_water = l])

\* a flush that sizes its packets by send_pktsize alone
FlushPktsizeIgnoringWindow(c) == c.send_pktsize

\* the size of the next data packet (_flush_send_buf, line 153)
FlushPktsize(c) == Min(c.send_window, c.send_pktsize)

\* the test of the while loop of _flush_send_buf (line 152)
LoopCondition(c) ==
    c.send_buf # <<>> /\ c.send_window # None /\ c.send_window # 0

\* one pass through the body of the loop (lines 153-170)
FlushIteration(c) ==
    LET pktsize == FlushPktsize(c)
        buf     == Head(c.send_buf).data
        dt      == Head(c.send_buf).datatype
        whole   == ~(Len(buf) > pktsize)
        data    == IF whole THEN buf ELSE SubSeq(buf, 1, pktsize)
        rest    == IF whole THEN Tail(c.send_buf)
                   ELSE <<[data |-> SubSeq(buf, pktsize + 1, Len(buf)),
                           datatype |-> dt]>> \o Tail(c.send_buf)
        c1      == [c EXCEPT !.send_buf = rest,
                             !.send_buf_len = @ - Len(data),
                             !.send_window = @ - Len(data)]
    IN SendPacket(c1, IF dt = None THEN Pkt("DATA", data, None, 0)
                      ELSE Pkt("EXTENDED_DATA", data, dt, 0))

\* the while loop of _flush_send_buf, run to its end (send_pktsize >= 1:
\* with a packet size of 0 the loop does not end, and the specifications
\* that take the loop pass by pass are the ones that have that size)
RECURSIVE FlushLoop(_)
FlushLoop(c) ==
    IF c.raised # "none" \/ ~LoopCondition(c) THEN c
    ELSE FlushLoop(FlushIteration(c))

\* what _flush_send_buf does once the buffer is drained (lines 174-180)
FlushTail(c) ==
    IF c.raised # "none" \/ c.send_buf # <<>> THEN c
    ELSE IF c.send_state = "eof_pending"
    THEN LET c1 == SendPacket(c, Pkt("EOF", <<>>, None, 0))
         IN IF c1.raised # "none" THEN c1
            ELSE [c1 EXCEPT !.send_state = "eof_sent"]
    ELSE IF c.send_state = "close_pending"
    THEN LET c1 == SendPacket(c, Pkt("CLOSE", <<>>, None, 0))
         IN IF c1.raised # "none" THEN c1
            ELSE [c1 EXCEPT !.send_state = "close_sent"]
    ELSE c

\* SSHChannel._flush_send_buf
FlushSendBuf(c) == FlushTail(PauseResumeWriting(FlushLoop(c)))

\* a write that does not look at send_state
WriteInAnyState(c, data, datatype) ==
    IF datatype # None /\ datatype \notin WriteDatatypes(c.kind)
    THEN Raise(c, "OSError")
    ELSE IF Len(data) = 0 THEN c
    ELSE FlushSendBuf(
           [c EXCEPT !.send_buf = Append(@, [data |-> data,
                                              datatype |-> datatype]),
                     !.send_buf_len = @ + Len(data),
                     !.written = Append(@, [data |-> data,
                                            datatype |-> datatype])])

\* SSHChannel.write (encoding None: the data is bytes)
Write(c, data, datatype) ==
    IF c.send_state # "open" THEN Raise(c, "BrokenPipeError")
    ELSE IF datatype # None /\ datatype \notin WriteDatatypes(c.kind)
    THEN Raise(c, "OSError")
    ELSE IF Len(data) = 0 THEN c
    ELSE FlushSendBuf(
           [c EXCEPT !.send_buf = Append(@, [data |-> data,
                                              datatype |-> datatype]),
                     !.send_buf_len = @ + Len(data),
                     !.written = Append(@, [data |-> data,
                                            datatype |-> datatype])])

\* a write_eof that marks the state before it looks at it
WriteEofMarkingFirst(c) ==
    IF c.send_state # "open"
    THEN Raise([c EXCEPT !.send_state = "eof_pending"], "BrokenPipeError")
    ELSE FlushSendBuf([c EXCEPT !.send_state = "eof_pending"])

\* SSHChannel.write_eof
WriteEof(c) ==
    IF c.send_state # "open" THEN Raise(c, "BrokenPipeError")
    ELSE FlushSendBuf([c EXCEPT !.send_state = "eof_pending"])

\* SSHChannel.abort
Abort(c) ==
    IF c.send_state \notin {"close_sent", "closed"}
    THEN LET c1 == SendPacket(c, Pkt("CLOSE", <<>>, None, 0))
         IN IF c1.raised # "none" THEN c1
            ELSE [c1 EXCEPT !.send_state = "close_sent",
                            !.aborted_at = Len(c1.out)]
    ELSE c

\* SSHChannel.close
Close(c) ==
    IF c.send_state \notin Closing
    THEN FlushSendBuf([c EXCEPT !.send_state = "close_pending",
                                !.close_at = Len(c.out)])
    ELSE c

\* SSHChannel._send_request (want_reply as given)
SendRequest(c, want_reply) ==
    SendPacket(c, Pkt("REQUEST", <<>>, None, IF want_reply THEN 1 ELSE 0))

\* SSHServerChannel.exit / exit_with_signal
Exit(c) ==
    IF c.send_state \notin {"open", "eof_pending", "eof_sent"}
    THEN Raise(c, "OSError")
    ELSE Close(SendRequest(c, FALSE))

\* packet.py: Byte(value) is one byte, UInt32(value) four bytes, the most
\* significant first
Byte(value) == <<value>>

UInt32(value) ==
    <<(value \div 16777216) % 256, (value \div 65536) % 256,
      (value \div 256) % 256, value % 256>>

\* a CHANNEL_REQUEST packet: the request's name, want_reply and the
\* arguments that follow them
ReqPkt(request, want_reply, args) ==
    [type |-> "REQUEST", data |-> <<>>, datatype |-> None,
     n |-> IF want_reply THEN 1 ELSE 0, request |-> request, args |-> args]

\* SSHChannel._send_request(request, *args, want_reply)
SendRequestNamed(c, request, args, want_reply) ==
    SendPacket(c, ReqPkt(request, want_reply, args))

\* SSHServerChannel.exit(status)
ExitStatus(c, status) ==
    IF c.send_state \notin {"open", "eof_pending", "eof_sent"}
    THEN Raise(c, "OSError")
    ELSE Close(SendRequestNamed([c EXCEPT !.exit_arg = status],
                                "exit-status", UInt32(status % 256), FALSE))

\* ---------------------------------------------------------- receive path

\* SSHChannel.pause_reading
PauseReading(c) == [c EXCEPT !.recv_paused = TRUE]

\* what the session does, synchronously, inside data_received / eof_received
Reactions == {"none", "pause", "close"}

React(c, react) ==
    IF c.raised # "none" THEN c
    ELSE IF react = "pause" THEN PauseReading(c)
    ELSE IF react = "close" THEN Close(c)
    ELSE c

\* a debit that replenishes the window already at half of init
DebitWindowAtHalf(c, data) ==
    LET c1 == [c EXCEPT !.recv_window = @ - Len(data)]
    IN IF 2 * c1.recv_window <= c1.init_recv_window
       THEN LET c2 == SendPacket(c1, Pkt("WINDOW_ADJUST", <<>>, None,
                                c1.init_recv_window - c1.recv_window))
            IN IF c2.raised # "none" THEN c2
               ELSE [c2 EXCEPT !.recv_window = c2.init_recv_window]
       ELSE c1

\* a debit that replenishes the window only below a quarter of init
DebitWindowAtQuarter(c, data) ==
    LET c1 == [c EXCEPT !.recv_window = @ - Len(data)]
    IN IF 4 * c1.recv_window < c1.init_recv_window
       THEN LET c2 == SendPacket(c1, Pkt("WINDOW_ADJUST", <<>>, None,
                                c1.init_recv_window - c1.recv_window))
            IN IF c2.raised # "none" THEN c2
               ELSE [c2 EXCEPT !.recv_window = c2.init_recv_window]
       ELSE c1

\* the window debit and WINDOW_ADJUST of _deliver_data (lines 193-199)
DebitWindow(c, data) ==
    LET c1 == [c EXCEPT !.recv_window = @ - Len(data)]
    IN IF 2 * c1.recv_window < c1.init_recv_window
       THEN LET c2 == SendPacket(c1, Pkt("WINDOW_ADJUST", <<>>, None,
                                c1.init_recv_window - c1.recv_window))
            IN IF c2.raised # "none" THEN c2
               ELSE [c2 EXCEPT !.recv_window = c2.init_recv_window]
       ELSE c1

\* bytes.decode('utf-8') for strings of ASCII bytes, lead bytes of two-byte
\* characters (0xC2..0xDF), continuation bytes (0x80..0xBF) and bytes that
\* start no character (0xF8..0xFF): the code points decoded, or the
\* UnicodeDecodeError with its start (0-based) and reason
DecodeError(start, reason) ==
    [ok |-> FALSE, text |-> <<>>, start |-> start, reason |-> reason]

RECURSIVE DecodeFrom(_, _, _)
DecodeFrom(input, i, text) ==
    IF i > Len(input)
    THEN [ok |-> TRUE, text |-> text, start |-> 0, reason |-> "none"]
    ELSE LET b == input[i]
         IN IF b < 128 THEN DecodeFrom(input, i + 1, Append(text, b))
            ELSE IF b \in 194..223
            THEN IF i = Len(input)
                 THEN DecodeError(i - 1, "unexpected end of data")
                 ELSE IF input[i + 1] \in 128..191
                 THEN DecodeFrom(input, i + 2,
                          Append(text, (b - 192) * 64 + input[i + 1] - 128))
                 ELSE DecodeError(i - 1, "invalid continuation byte")
            ELSE DecodeError(i - 1, "invalid start byte")

Decode(input) == DecodeFrom(input, 1, <<>>)

\* the decoding loop of _deliver_data (lines 207-224): what decodes goes to
\* data_received, an incomplete character at the end is kept in
\* recv_partial[datatype]
RECURSIVE DecodeLoop(_, _, _)
DecodeLoop(c, input, datatype) ==
    IF c.raised # "none" \/ input = <<>> THEN c
    ELSE LET d == Decode(input)
         IN IF d.ok
            THEN SessionCall(c, Call("data_received", d.text, datatype))
            ELSE IF d.start > 0
            THEN DecodeLoop(
                     SessionCall(c, Call("data_received",
                         Decode(SubSeq(input, 1, d.start)).text, datatype)),
                     SubSeq(input, d.start + 1, Len(input)), datatype)
            ELSE IF d.reason = "unexpected end of data"
            THEN [c EXCEPT !.recv_partial =
                      [t \in DOMAIN @ \cup {datatype} |->
                           IF t = datatype THEN input ELSE @[t]]]
            ELSE Raise(c, "DisconnectError")

\* _deliver_data for data on a channel with an encoding (lines 202-224)
DeliverText(c, item) ==
    IF c.raised # "none" THEN c
    ELSE IF item.datatype \in DOMAIN c.recv_partial
    THEN DecodeLoop([c EXCEPT !.recv_partial =
                         [t \in DOMAIN @ \ {item.datatype} |-> @[t]]],
                    c.recv_partial[item.datatype] \o item.data,
                    item.datatype)
    ELSE DecodeLoop(c, item.data, item.datatype)

\* SSHChannel._deliver_data.  For EOF the reaction "close" is
\* eof_received() returning false, upon which the channel calls close();
\* for data the reaction is what the session does in data_received.
DeliverData(c, item, react) ==
    IF c.raised # "none" THEN c
    ELSE IF item.data = EOF
    THEN IF item.datatype \in DOMAIN c.recv_partial
         THEN Raise(c, "DisconnectError")
         ELSE React(SessionCall(c, Call("eof_received", <<>>, None)), react)
    ELSE IF c.encoding
    THEN React(DeliverText(DebitWindow(c, item.data), item), react)
    ELSE React(SessionCall(DebitWindow(c, item.data),
                           Call("data_received", item.data, item.datatype)),
               react)

\* an _accept_data that drops what arrives while reading is paused
AcceptDataUnbuffered(c, data, datatype, react) ==
    IF c.raised # "none" THEN c
    ELSE IF data = <<>> THEN c
    ELSE IF c.send_state \in Closing THEN c
    ELSE IF data # EOF /\ Len(data) > c.recv_window
    THEN Raise(c, "DisconnectError")
    ELSE LET item == [data |-> data, datatype |-> datatype]
             c1   == [c EXCEPT !.accepted = Append(@, item),
                               !.since_adjust =
                                   IF data = EOF THEN @ ELSE @ + Len(data)]
         IN IF c.recv_paused THEN c1 ELSE DeliverData(c1, item, react)

\* SSHChannel._accept_data
AcceptData(c, data, datatype, react) ==
    IF c.raised # "none" THEN c
    ELSE IF data = <<>> THEN c
    ELSE IF c.send_state \in Closing THEN c
    ELSE IF data # EOF /\ Len(data) > c.recv_window
    THEN Raise(c, "DisconnectError")
    ELSE LET item == [data |-> data, datatype |-> datatype]
             c1   == [c EXCEPT !.accepted = Append(@, item),
                               !.since_adjust =
                                   IF data = EOF THEN @ ELSE @ + Len(data)]
         IN IF c.recv_paused
            THEN [c1 EXCEPT !.recv_buf = Append(@, item)]
            ELSE DeliverData(c1, item, react)

\* a drain that takes the newest buffered item first
RECURSIVE DrainNewestFirst(_, _, _)
DrainNewestFirst(c, reacts, i) ==
    IF c.raised # "none" \/ c.recv_buf = <<>> THEN c
    ELSE IF c.recv_paused THEN [c EXCEPT !.drain_cut = TRUE]
    ELSE DrainNewestFirst(
             DeliverData([c EXCEPT !.recv_buf = SubSeq(@, 1, Len(@) - 1)],
                         c.recv_buf[Len(c.recv_buf)], reacts[i]),
             reacts, i + 1)

\* the while loop of resume_reading; reacts[i] is the session's reaction
\* to the i-th delivery of this drain
RECURSIVE Drain(_, _, _)
Drain(c, reacts, i) ==
    IF c.raised # "none" \/ c.recv_buf = <<>> THEN c
    ELSE IF c.recv_paused THEN [c EXCEPT !.drain_cut = TRUE]
    ELSE Drain(DeliverData([c EXCEPT !.recv_buf = Tail(@)],
                           Head(c.recv_buf), reacts[i]),
               reacts, i + 1)

\* SSHChannel.resume_reading
ResumeReading(c, reacts) ==
    IF c.raised # "none" THEN c
    ELSE IF c.recv_paused
    THEN Drain([c EXCEPT !.recv_paused = FALSE], reacts, 1)
    ELSE c

\* SSHChannel._process_data
ProcessData(c, data, react) ==
    LET c1 == [c EXCEPT !.peer_sent =
                   Append(@, [data |-> data, datatype |-> None])]
    IN IF c.recv_state # "open" THEN Raise(c1, "DisconnectError")
       ELSE AcceptData(c1, data, None, react)

\* SSHChannel._process_extended_data
ProcessExtendedData(c, datatype, data, react) ==
    LET c1 == [c EXCEPT !.peer_sent =
                   Append(@, [data |-> data, datatype |-> datatype])]
    IN IF c.recv_state # "open" THEN Raise(c1, "DisconnectError")
       ELSE IF datatype \notin ReadDatatypes(c.kind)
       THEN Raise(c1, "DisconnectError")
       ELSE AcceptData(c1, data, datatype, react)

\* a _process_eof that leaves recv_state open
ProcessEofKeepingState(c, react) ==
    IF c.recv_state # "open" THEN Raise(c, "DisconnectError")
    ELSE AcceptData(c, EOF, None, react)

\* SSHChannel._process_eof
ProcessEof(c, react) ==
    IF c.recv_state # "open" THEN Raise(c, "DisconnectError")
    ELSE AcceptData([c EXCEPT !.recv_state = "eof_received"],
                    EOF, None, react)

\* SSHChannel._process_window_adjust
ProcessWindowAdjust(c, adjust) ==
    IF c.recv_state \notin {"open", "eof_received"}
    THEN Raise(c, "DisconnectError")
    ELSE FlushSendBuf([c EXCEPT !.send_window = @ + adjust,
                                !.granted = @ + adjust])

\* a _process_close that answers the CLOSE but schedules no _cleanup
ProcessCloseWithoutCleanup(c) ==
    LET c0 == [c EXCEPT !.closes_in = @ + 1]
    IN IF c.recv_state \notin {"open", "eof_received"}
       THEN Raise(c0, "DisconnectError")
       ELSE LET c1 == [c0 EXCEPT !.send_buf = <<>>, !.send_buf_len = 0]
            IN IF c1.send_state \notin {"close_sent", "closed"}
               THEN SendPacket(c1, Pkt("CLOSE", <<>>, None, 0))
               ELSE c1

\* a _process_close that empties send_buf and leaves send_buf_len alone
ProcessCloseKeepingLen(c) ==
    LET c0 == [c EXCEPT !.closes_in = @ + 1]
    IN IF c.recv_state \notin {"open", "eof_received"}
       THEN Raise(c0, "DisconnectError")
       ELSE LET c1 == [c0 EXCEPT !.send_buf = <<>>]
                c2 == IF c1.send_state \notin {"close_sent", "closed"}
                      THEN SendPacket(c1, Pkt("CLOSE", <<>>, None, 0))
                      ELSE c1
            IN IF c2.raised # "none" THEN c2
               ELSE [c2 EXCEPT !.ready = @ + 1]

\* SSHChannel._process_close; _cleanup is scheduled with loop.call_soon
ProcessClose(c) ==
    LET c0 == [c EXCEPT !.closes_in = @ + 1]
    IN IF c.recv_state \notin {"open", "eof_received"}
       THEN Raise(c0, "DisconnectError")
       ELSE LET c1 == [c0 EXCEPT !.send_buf = <<>>, !.send_buf_len = 0]
                c2 == IF c1.send_state \notin {"close_sent", "closed"}
                      THEN SendPacket(c1, Pkt("CLOSE", <<>>, None, 0))
                      ELSE c1
            IN IF c2.raised # "none" THEN c2
               ELSE [c2 EXCEPT !.ready = @ + 1]

\* ------------------------------------------------ requests and responses

\* SSHChannel._make_request up to its yield: the waiter is queued, then the
\* request is sent
MakeRequest(c) ==
    LET id == Len(c.futures) + 1
        c1 == [c EXCEPT !.futures = Append(@, "pending"),
                        !.request_waiters = Append(@, id)]
        c2 == SendRequest(c1, TRUE)
    IN IF c2.raised # "none" THEN c2
       ELSE [c2 EXCEPT !.awaited = @ \cup {id}]

\* SSHChannel._make_request(request, *args) up to its yield
MakeRequestNamed(c, request, args) ==
    LET id == Len(c.futures) + 1
        c1 == [c EXCEPT !.futures = Append(@, "pending"),
                        !.request_waiters = Append(@, id)]
        c2 == SendRequestNamed(c1, request, args, TRUE)
    IN IF c2.raised # "none" THEN c2
       ELSE [c2 EXCEPT !.awaited = @ \cup {id}]

\* SSHChannel._process_response; Future.set_result raises InvalidStateError
\* on a future that is not pending
ProcessResponse(c, success) ==
    IF c.send_state \notin {"open", "eof_pending", "eof_sent",
                            "close_pending", "close_sent"}
    THEN Raise(c, "DisconnectError")
    ELSE IF c.request_waiters # <<>>
    THEN LET waiter == Head(c.request_waiters)
             c1 == [c EXCEPT !.request_waiters = Tail(@),
                             !.responses = Append(@, success)]
         IN IF c.futures[waiter] = "cancelled" THEN c1
            ELSE IF c.futures[waiter] # "pending"
            THEN Raise(c1, "InvalidStateError")
            ELSE [c1 EXCEPT !.futures[waiter] =
                                IF success THEN "true" ELSE "false"]
    ELSE Raise(c, "DisconnectError")

\* the value of a big-endian byte string (packet.get_uint32,
\* int.from_bytes(..., 'big'))
RECURSIVE FromBytes(_)
FromBytes(bytes) ==
    IF bytes = <<>> THEN 0
    ELSE 256 * FromBytes(SubSeq(bytes, 1, Len(bytes) - 1))
         + bytes[Len(bytes)]

\* a command or subsystem name that does not decode
Undecodable == "undecodable"

\* the while loop of _process_pty_req_request over the modes string:
\* the map decoded from modes[idx..], added to the map term_modes
RECURSIVE DecodeModes(_, _, _)
DecodeModes(c, modes, idx) ==
    IF ~(idx <= Len(modes)) THEN c
    ELSE LET mode == modes[idx]
         IN IF mode = PTY_OP_END \/ mode >= PTY_OP_RESERVED THEN c
            ELSE IF idx + 4 <= Len(modes)
            THEN DecodeModes(
                   [c EXCEPT !.term_modes =
                        [m \in DOMAIN @ \cup {mode} |->
                            IF m = mode
                            THEN FromBytes(SubSeq(modes, idx + 1, idx + 4))
                            ELSE @[m]]],
                   modes, idx + 5)
            ELSE Raise(c, "DisconnectError")

\* a handler's outcome: the channel it leaves and the result it returns
Handled(c, result) == [c |-> c, result |-> c.raised = "none" /\ result]

\* SSHServerChannel._process_pty_req_request; session_result is what
\* session.pty_requested returns
ProcessPtyReqRequest(c, args, session_result) ==
    IF args[1] = Undecodable
    THEN Handled(Raise(c, "DisconnectError"), FALSE)
    ELSE LET c0 == [c EXCEPT !.term_type = args[1]]
         IN IF ~c0.options.pty THEN Handled(c0, FALSE)
            ELSE LET c1 == DecodeModes([c0 EXCEPT !.term_size = args[2]],
                                       args[3], 1)
                 IN Handled(SessionCall(c1, Call("pty_requested",
                                                 c1.term_modes, None)),
                            session_result)

\* a _start_session that looks at the key option first
StartSessionKeyFirst(c, command, subsystem, session_result) ==
    LET key     == c.options.command
        forced  == IF key = "None" THEN c.options.force_command ELSE key
        cmd     == IF forced # "None" THEN forced ELSE command
    IN IF cmd # "None"
       THEN Handled(SessionCall(c, Call("exec_requested", <<cmd>>, None)),
                    session_result)
       ELSE IF subsystem # "None"
       THEN Handled(SessionCall(c, Call("subsystem_requested",
                                        <<subsystem>>, None)),
                    session_result)
       ELSE Handled(SessionCall(c, Call("shell_requested", <<>>, None)),
                    session_result)

\* SSHServerChannel._start_session(command, subsystem), "None" for None
StartSession(c, command, subsystem, session_result) ==
    LET cert    == c.options.force_command
        forced  == IF cert = "None" THEN c.options.command ELSE cert
        cmd     == IF forced # "None" THEN forced ELSE command
    IN IF cmd # "None"
       THEN Handled(SessionCall(c, Call("exec_requested", <<cmd>>, None)),
                    session_result)
       ELSE IF subsystem # "None"
       THEN Handled(SessionCall(c, Call("subsystem_requested",
                                        <<subsystem>>, None)),
                    session_result)
       ELSE Handled(SessionCall(c, Call("shell_requested", <<>>, None)),
                    session_result)

\* SSHClientChannel._process_exit_status_request
ProcessExitStatusRequest(c, args) ==
    LET status == FromBytes(args) % 256
    IN Handled(SessionCall([c EXCEPT !.exit_status = status],
                           Call("exit_status_received", <<status>>, None)),
               TRUE)

\* getattr(self, '_process_..._request') and the handler's call: a server
\* channel handles pty-req, env, shell, exec and subsystem, a client
\* channel exit-status; a request without handler yields False
HandleRequest(c, request, args, session_result) ==
    IF c.kind = "server" /\ request = "pty-req"
    THEN ProcessPtyReqRequest(c, args, session_result)
    ELSE IF c.kind = "server" /\ request = "env"
    THEN Handled(c, TRUE)
    ELSE IF c.kind = "server" /\ request = "shell"
    THEN StartSession(c, "None", "None", session_result)
    ELSE IF c.kind = "server" /\ request = "exec"
    THEN IF args[1] = Undecodable THEN Handled(c, FALSE)
         ELSE StartSession(c, args[1], "None", session_result)
    ELSE IF c.kind = "server" /\ request = "subsystem"
    THEN IF args[1] = Undecodable THEN Handled(c, FALSE)
         ELSE StartSession(c, "None", args[1], session_result)
    ELSE IF c.kind = "client" /\ request = "exit-status"
    THEN ProcessExitStatusRequest(c, args)
    ELSE Handled(c, FALSE)

\* a _process_request that replies whether or not a reply is wanted
ProcessRequestReplyingAlways(c0, request, args, want_reply, session_result, reacts) ==
    LET c == [c0 EXCEPT !.requests_in = @ + 1,
                        !.last_request = [request |-> request,
                                          args |-> args]] IN
    IF c.recv_state \notin {"open", "eof_received"}
    THEN Raise(c, "DisconnectError")
    ELSE IF c.send_state \in Closing THEN c
    ELSE LET h  == HandleRequest(c, request, args, session_result)
             c2 == SendPacket(h.c, Pkt(IF h.result THEN "SUCCESS"
                                       ELSE "FAILURE", <<>>, None, 0))
         IN IF h.result /\ request \in {"shell", "exec", "subsystem"}
            THEN ResumeReading(
                   SessionCall(c2, Call("session_started", <<>>, None)),
                   reacts)
            ELSE c2

\* SSHChannel._process_request for the request named request with the
\* arguments args; session_result is what the session's callback returns
\* when the handler asks the session
ProcessRequestNamed(c0, request, args, want_reply, session_result, reacts) ==
    LET c == [c0 EXCEPT !.requests_in = @ + 1,
                        !.last_request = [request |-> request,
                                          args |-> args]] IN
    IF c.recv_state \notin {"open", "eof_received"}
    THEN Raise(c, "DisconnectError")
    ELSE IF c.send_state \in Closing THEN c
    ELSE LET h  == HandleRequest(c, request, args, session_result)
             c2 == IF want_reply
                   THEN SendPacket(h.c, Pkt(IF h.result THEN "SUCCESS"
                                            ELSE "FAILURE", <<>>, None, 0))
                   ELSE h.c
         IN IF h.result /\ request \in {"shell", "exec", "subsystem"}
            THEN ResumeReading(
                   SessionCall(c2, Call("session_started", <<>>, None)),
                   reacts)
            ELSE c2

\* _process_request for a request without arguments: "shell", or a name
\* the channel has no handler for
ProcessRequest(c0, request, want_reply, handler_result, reacts) ==
    ProcessRequestNamed(c0, request, <<>>, want_reply, handler_result,
                        reacts)

\* ---------------------------------------------------------------- cleanup

\* the exc handed to _cleanup: None, or the exception that ended the
\* connection
Excs == {"None", "exc"}

\* the loop over the request waiters in _cleanup: Future.set_exception
\* raises InvalidStateError on a future that is not pending, and TypeError
\* for an exc that the Future does not take (exc is None and the Future
\* does not store None).  A waiter that stores None yields None to its
\* caller.
RECURSIVE FailWaiters(_, _, _, _)
FailWaiters(c, waiters, exc, stores_none) ==
    IF c.raised # "none" \/ waiters = <<>> THEN c
    ELSE IF c.futures[Head(waiters)] # "pending"
    THEN Raise(c, "InvalidStateError")
    ELSE IF exc = "None" /\ ~stores_none THEN Raise(c, "TypeError")
    ELSE FailWaiters([c EXCEPT !.futures[Head(waiters)] =
                                   IF exc = "None" THEN "none"
                                   ELSE "exception"],
                     Tail(waiters), exc, stores_none)

\* the loop over the close waiters in _cleanup
RECURSIVE ResolveWaiters(_, _)
ResolveWaiters(c, waiters) ==
    IF waiters = <<>> THEN c
    ELSE ResolveWaiters(
           IF c.futures[Head(waiters)] = "cancelled" THEN c
           ELSE IF c.futures[Head(waiters)] # "pending"
           THEN Raise(c, "InvalidStateError")
           ELSE [c EXCEPT !.futures[Head(waiters)] = "done"],
           Tail(waiters))

\* a cleanup that keeps the session it has told connection_lost
CleanupKeepingSession(c, exc, stores_none) ==
    LET c1 == IF c.open_waiter = "None" THEN c
              ELSE IF c.open_waiter = "cancelled"
              THEN Raise(c, "InvalidStateError")
              ELSE [c EXCEPT !.open_waiter = "None", !.pc = "failed",
                             !.open_result = "CONNECT_FAILED"]
        c2 == IF c1.raised # "none" \/ c1.request_waiters = <<>> THEN c1
              ELSE LET f == FailWaiters(c1, c1.request_waiters,
                                        exc, stores_none)
                   IN IF f.raised # "none" THEN f
                      ELSE [f EXCEPT !.request_waiters = <<>>]
        c3 == IF c2.raised # "none" \/ c2.close_waiters = <<>> THEN c2
              ELSE LET r == ResolveWaiters(c2, c2.close_waiters)
                   IN IF r.raised # "none" THEN r
                      ELSE [r EXCEPT !.close_waiters = <<>>]
        c4 == IF c3.raised # "none" \/ ~c3.session THEN c3
              ELSE [SessionCall(c3, Call("connection_lost", <<>>, None))
                       EXCEPT !.lost = Append(@, exc)]
        c5 == IF c4.raised # "none" \/ ~c4.conn THEN c4
              ELSE [c4 EXCEPT !.conn = FALSE,
                              !.removed = IF c4.recv_chan \notin {None, 0}
                                          THEN @ + 1 ELSE @,
                              !.recv_chan = IF c4.recv_chan \notin {None, 0}
                                            THEN None ELSE @]
    IN IF c5.raised # "none" THEN c5
       ELSE [c5 EXCEPT !.send_state = "closed", !.recv_state = "closed"]

\* SSHChannel._cleanup(exc).  set_exception(None) is taken by a Future
\* written in Python, which stores the None, and refused with TypeError by
\* the Future of the C accelerator: stores_none tells which one runs.
Cleanup(c, exc, stores_none) ==
    LET c1 == IF c.open_waiter = "None" THEN c
              ELSE IF c.open_waiter = "cancelled"
              THEN Raise(c, "InvalidStateError")
              ELSE [c EXCEPT !.open_waiter = "None", !.pc = "failed",
                             !.open_result = "CONNECT_FAILED"]
        c2 == IF c1.raised # "none" \/ c1.request_waiters = <<>> THEN c1
              ELSE LET f == FailWaiters(c1, c1.request_waiters,
                                        exc, stores_none)
                   IN IF f.raised # "none" THEN f
                      ELSE [f EXCEPT !.request_waiters = <<>>]
        c3 == IF c2.raised # "none" \/ c2.close_waiters = <<>> THEN c2
              ELSE LET r == ResolveWaiters(c2, c2.close_waiters)
                   IN IF r.raised # "none" THEN r
                      ELSE [r EXCEPT !.close_waiters = <<>>]
        c4 == IF c3.raised # "none" \/ ~c3.session THEN c3
              ELSE [SessionCall(c3, Call("connection_lost", <<>>, None))
                       EXCEPT !.session = FALSE, !.lost = Append(@, exc)]
        c5 == IF c4.raised # "none" \/ ~c4.conn THEN c4
              ELSE [c4 EXCEPT !.conn = FALSE,
                              !.removed = IF c4.recv_chan \notin {None, 0}
                                          THEN @ + 1 ELSE @,
                              !.recv_chan = IF c4.recv_chan \notin {None, 0}
                                            THEN None ELSE @]
    IN IF c5.raised # "none" THEN c5
       ELSE [c5 EXCEPT !.send_state = "closed", !.recv_state = "closed"]

\* SSHChannel.wait_closed up to its yield: without a session it returns
\* at once
WaitClosed(c) ==
    IF c.session
    THEN [c EXCEPT !.futures = Append(@, "pending"),
                   !.close_waiters = Append(@, Len(c.futures) + 1),
                   !.awaited = @ \cup {Len(c.futures) + 1}]
    ELSE [c EXCEPT !.futures = Append(@, "returned")]

\* -------------------------------------------------------------- handshake

\* SSHChannel._open up to its yield, as called by SSHClientChannel.create
Open(c) ==
    IF c.send_state # "closed"
    THEN [Raise(c, "OSError") EXCEPT !.pc = "failed", !.open_result = "OSError"]
    ELSE IF ~c.conn
    THEN [Raise(c, "AttributeError") EXCEPT !.pc = "failed",
                                            !.open_waiter = "pending",
                                            !.open_result = "AttributeError"]
    ELSE [c EXCEPT !.open_waiter = "pending",
                   !.out = Append(@, Pkt("OPEN", <<>>, None, 0)),
                   !.send_state = "open_sent",
                   !.pc = "open_wait"]

\* a process_open_confirmation that does not ask for an open_waiter
ProcessOpenConfirmationUnchecked(c, chan, window, pktsize) ==
    [c EXCEPT !.send_chan = chan, !.send_window = window,
              !.send_pktsize = pktsize, !.granted = window,
              !.send_state = "open", !.recv_state = "open",
              !.open_waiter = "None"]

\* SSHChannel.process_open_confirmation
ProcessOpenConfirmation(c, chan, window, pktsize) ==
    IF c.open_waiter = "None" THEN Raise(c, "DisconnectError")
    ELSE [c EXCEPT !.send_chan = chan, !.send_window = window,
                   !.send_pktsize = pktsize, !.granted = window,
                   !.send_state = "open", !.recv_state = "open",
                   !.pc = IF c.open_waiter # "cancelled" THEN "opened" ELSE @,
                   !.open_result = IF c.open_waiter # "cancelled"
                                   THEN "confirmation" ELSE @,
                   !.open_waiter = "None"]

\* SSHChannel.process_open_failure: set_exception has no check for a
\* cancelled waiter
ProcessOpenFailure(c) ==
    IF c.open_waiter = "None" THEN Raise(c, "DisconnectError")
    ELSE IF c.open_waiter = "cancelled" THEN Raise(c, "InvalidStateError")
    ELSE [c EXCEPT !.open_waiter = "None", !.pc = "failed",
                   !.open_result = "ChannelOpenError",
                   !.ready = @ + 1]

\* SSHClientChannel.create from the return of _open to the yield of
\* _make_request(b'shell') (no env, no terminal, no command, no subsystem):
\* the session is installed and the shell request is sent
CreateSession(c) ==
    LET c1 == SessionCall([c EXCEPT !.session = TRUE],
                          Call("connection_made", <<>>, None))
        c2 == MakeRequest([c1 EXCEPT !.shell_waiter = Len(c1.futures) + 1])
    IN IF c2.raised # "none" THEN [c2 EXCEPT !.pc = "failed"]
       ELSE [c2 EXCEPT !.pc = "requested"]

\* an encoding that puts each value before its opcode
RECURSIVE EncodeModesValueFirst(_)
EncodeModesValueFirst(items) ==
    IF items = <<>> THEN <<>>
    ELSE UInt32(Head(items)[2]) \o Byte(Head(items)[1])
         \o EncodeModesValueFirst(Tail(items))

\* the loop over term_modes.items() in create(): items is the map in the
\* order the dict yields it, each item <<mode, value>>
RECURSIVE EncodeModes(_)
EncodeModes(items) ==
    IF items = <<>> THEN <<>>
    ELSE Byte(Head(items)[1]) \o UInt32(Head(items)[2])
         \o EncodeModes(Tail(items))

\* the loop over env.items() in create(): one env request each, no reply
RECURSIVE SendEnv(_, _)
SendEnv(c, n) ==
    IF n = 0 \/ c.raised # "none" THEN c
    ELSE SendEnv(SendRequestNamed(c, "env", <<>>, FALSE), n - 1)

\* create(): the session request, exec for a command, else subsystem for a
\* subsystem, else shell (lines 797-803), up to the yield of _make_request;
\* the command or subsystem given is named by its request
CreateSessionRequest(c) ==
    LET c1 == MakeRequestNamed(
                  [c EXCEPT !.shell_waiter = Len(c.futures) + 1],
                  c.create_args.request,
                  IF c.create_args.request = "shell" THEN <<>>
                  ELSE <<c.create_args.request>>)
    IN IF c1.raised # "none" THEN [c1 EXCEPT !.pc = "failed"]
       ELSE [c1 EXCEPT !.pc = "requested"]

\* the terminal create() asks for when it is given a terminal type: its
\* name, and the size (80, 24) with the pixel sizes defaulting to 0
TermType == "xterm"
TermSize == <<80, 24, 0, 0>>

\* SSHClientChannel.create(args) from the return of _open to its next
\* yield: the session is installed, the env requests are sent, then pty-req
\* (with a terminal type) or the session request
CreateRequests(c, args) ==
    LET c1 == SessionCall([c EXCEPT !.session = TRUE, !.create_args = args],
                          Call("connection_made", <<>>, None))
        c2 == SendEnv(c1, args.env)
    IN IF c2.raised # "none" THEN [c2 EXCEPT !.pc = "failed"]
       ELSE IF ~args.term_type THEN CreateSessionRequest(c2)
       ELSE IF \E i \in 1..Len(args.term_modes) :
                   \/ args.term_modes[i][1] <= PTY_OP_END
                   \/ args.term_modes[i][1] >= PTY_OP_RESERVED
       THEN [Raise(c2, "ValueError") EXCEPT !.pc = "failed"]
       ELSE LET c3 == MakeRequestNamed(
                          [c2 EXCEPT !.pty_waiter = Len(c2.futures) + 1],
                          "pty-req",
                          <<TermType, TermSize,
                            EncodeModes(args.term_modes)
                                \o Byte(PTY_OP_END)>>)
            IN IF c3.raised # "none" THEN [c3 EXCEPT !.pc = "failed"]
               ELSE [c3 EXCEPT !.pc = "pty_requested"]

\* create() once the waiter of pty-req is done (lines 787-795)
CreatePty(c) ==
    LET result == c.futures[c.pty_waiter]
    IN IF result = "cancelled"
       THEN [Raise(c, "CancelledError") EXCEPT !.pc = "failed"]
       ELSE IF result = "exception"
       THEN [Raise(c, "Exception") EXCEPT !.pc = "failed"]
       ELSE IF result # "true"
       THEN [Raise(Close(c), "ChannelOpenError(REQUEST_PTY_FAILED)")
                EXCEPT !.pc = "failed"]
       ELSE CreateSessionRequest(c)

\* SSHClientChannel.create once the waiter of the session request (exec,
\* subsystem or shell) is done (lines 807-819).  A waiter that _cleanup
\* failed with an exception raises it; one that stored None yields None.
CreateStart(c, reacts) ==
    LET result == c.futures[c.shell_waiter]
    IN IF result = "cancelled"
       THEN [Raise(c, "CancelledError") EXCEPT !.pc = "failed"]
       ELSE IF result = "exception"
       THEN [Raise(c, "Exception") EXCEPT !.pc = "failed"]
       ELSE IF result # "true"
       THEN [Raise(Close(c), "ChannelOpenError(REQUEST_SESSION_FAILED)")
                EXCEPT !.pc = "failed"]
       ELSE IF ~c.session
       THEN [Raise(c, "ChannelOpenError(REQUEST_SESSION_FAILED)")
                EXCEPT !.pc = "failed"]
       ELSE ResumeReading(
              SessionCall([c EXCEPT !.pc = "done"],
                          Call("session_started", <<>>, None)),
              reacts)

\* SSHChannel.process_open; _finish_open_request is scheduled as a task
ProcessOpen(c, chan, window, pktsize) ==
    IF c.recv_state # "closed" THEN Raise(c, "DisconnectError")
    ELSE [c EXCEPT !.send_state = "open_received", !.send_chan = chan,
                   !.send_window = window, !.send_pktsize = pktsize,
                   !.granted = window, !.finishing = @ + 1,
                   !.pc = IF @ = "start" THEN "finish_open" ELSE @]

\* SSHChannel._finish_open_request, one task: the session (factory) yields
\* a session (session_ok) or fails with ChannelOpenError
FinishOpenRequest(c0, session_ok) ==
    LET c == [c0 EXCEPT !.finishing = @ - 1]
        failed == IF c.pc = "done" THEN "done" ELSE "failed"
    IN IF session_ok
       THEN LET c1 == [c EXCEPT !.session = TRUE]
            IN IF ~c1.conn
               THEN [Raise(c1, "AttributeError") EXCEPT !.pc = failed]
               ELSE SessionCall(
                      [c1 EXCEPT !.pc = "done",
                                 !.out = Append(@, Pkt("OPEN_CONFIRMATION",
                                                       <<>>, None, 0)),
                                 !.send_state = "open",
                                 !.recv_state = "open"],
                      Call("connection_made", <<>>, None))
       ELSE IF ~c.conn
       THEN [Raise(c, "AttributeError") EXCEPT !.pc = failed]
       ELSE [c EXCEPT !.pc = failed,
                      !.out = Append(@, Pkt("OPEN_FAILURE", <<>>, None, 0)),
                      !.ready = @ + 1]

\* SSHTCPChannel._open_tcp from the return of _open to its end
OpenTcpSession(c, reacts) ==
    ResumeReading(
      SessionCall(
        SessionCall([c EXCEPT !.session = TRUE, !.pc = "done"],
                    Call("connection_made", <<>>, None)),
        Call("session_started", <<>>, None)),
      reacts)

\* SSHTCPChannel._finish_open_request
FinishOpenRequestTcp(c, session_ok, reacts) ==
    LET c1 == FinishOpenRequest(c, session_ok)
    IN IF c1.raised = "none" /\ c1.session
       THEN ResumeReading(
              SessionCall(c1, Call("session_started", <<>>, None)), reacts)
       ELSE c1

\* ---------------------------------------------------------------- actions

PeerChans == {0}

\* the connection still routes inbound messages to the channel
Dispatched == conn /\ ~disconnected

\* the session (or the caller of create()) holds the channel
SessionKnowsChannel == pc \in {"pty_requested", "requested", "done"}

NumWritten == Len(Concat(written))
NumPeerSent == Len(Concat(peer_sent))
NumSent(types) == Len(SelectType(out, types))
NumCalls(names) == Len(CallNames(calls, names))

ReactSeqs(n) == [1..n -> Reactions]

OpenAct ==
    /\ kind = "client" /\ pc = "start"
    /\ Becomes(Open(Chan))

ProcessOpenConfirmationAct ==
    /\ Dispatched
    /\ \E chan \in PeerChans :
           Becomes(ProcessOpenConfirmation(Chan, chan, peer_window,
                                           peer_pktsize))

CreateSessionAct ==
    /\ kind = "client" /\ pc = "opened"
    /\ Becomes(CreateSession(Chan))

CreateStartAct ==
    /\ kind = "client" /\ pc = "requested"
    /\ futures[shell_waiter] # "pending"
    /\ \E reacts \in ReactSeqs(Len(recv_buf)) :
           Becomes(CreateStart(Chan, reacts))

\* what create() is called with
CreateArgs ==
    [env : 0..MaxEnv, term_type : BOOLEAN, term_modes : {<<>>},
     request : {"exec", "subsystem", "shell"}]

\* PTY modes maps with valid opcodes and values of up to 31 bits, each in
\* the orders a dict may yield its items
ModeOps == {1, 53, PTY_OP_RESERVED - 1}

ModeValues == {0, 255, 256, 2147483647}

ModeSeqs ==
    {<<>>}
    \cup {<<<<m, v>>>> : m \in ModeOps, v \in ModeValues}
    \cup {<<<<ms[1], v1>>, <<ms[2], v2>>>> :
              ms \in {p \in ModeOps \X ModeOps : p[1] # p[2]},
              v1 \in ModeValues, v2 \in ModeValues}

\* create() with a terminal type and a modes map
ModeArgs ==
    {[NoArgs EXCEPT !.term_type = TRUE, !.term_modes = m] : m \in ModeSeqs}

\* create() resumes after _open, called with one of argsets
CreateRequestsOf(argsets) ==
    /\ kind = "client" /\ pc = "opened"
    /\ \E args \in argsets : Becomes(CreateRequests(Chan, args))

CreateRequestsAct == CreateRequestsOf(CreateArgs)

CreatePtyAct ==
    /\ kind = "client" /\ pc = "pty_requested"
    /\ futures[pty_waiter] # "pending"
    /\ Becomes(CreatePty(Chan))

ProcessOpenAct ==
    /\ kind = "server" /\ pc = "start" /\ Dispatched
    /\ \E chan \in PeerChans :
           Becomes(ProcessOpen(Chan, chan, peer_window, peer_pktsize))

FinishOpenRequestAct ==
    /\ kind = "server" /\ finishing > 0
    /\ \E session_ok \in BOOLEAN :
           Becomes(FinishOpenRequest(Chan, session_ok))

WriteAct ==
    /\ SessionKnowsChannel
    /\ \E n \in 1..MaxWriteLen, datatype \in Datatypes :
           /\ NumWritten + n <= MaxWritten
           /\ Becomes(Write(Chan, Bytes(NumWritten + 1, NumWritten + n),
                            datatype))

WriteEofAct ==
    /\ SessionKnowsChannel
    /\ Becomes(WriteEof(Chan))

CloseAct ==
    /\ SessionKnowsChannel
    /\ Becomes(Close(Chan))

AbortAct ==
    /\ SessionKnowsChannel
    /\ Becomes(Abort(Chan))

\* SSHServerChannel.exit / exit_with_signal
ExitAct ==
    /\ SessionKnowsChannel /\ kind = "server"
    /\ NumSent({"REQUEST"}) < MaxRequests
    /\ Becomes(Exit(Chan))

\* change_terminal_size, send_break, send_signal (client) and set_xon_xoff
\* (server): each is one _send_request without reply
SendRequestAct ==
    /\ SessionKnowsChannel
    /\ NumSent({"REQUEST"}) < MaxRequests
    /\ Becomes(SendRequest(Chan, FALSE))

SetWriteBufferLimitsAct ==
    /\ SessionKnowsChannel
    /\ Len(WriterCalls(calls)) < MaxWriterCalls
    /\ \E high \in {None} \cup 0..MaxHighWater,
          low \in {None} \cup 0..MaxHighWater :
           Becomes(SetWriteBufferLimits(Chan, high, low))

\* the marks a session may give, None for a mark it leaves out
Limits == {None, -2, 0, 1, 5}

\* set_write_buffer_limits with any marks, valid or not; limits_arg keeps
\* the marks given
SetLimitsAct ==
    /\ SessionKnowsChannel
    /\ Len(WriterCalls(calls)) < MaxWriterCalls
    /\ \E high \in Limits, low \in Limits :
           Becomes([SetWriteBufferLimits(Chan, high, low)
                        EXCEPT !.limits_arg = <<high, low>>])

PauseReadingAct ==
    /\ SessionKnowsChannel
    /\ Becomes(PauseReading(Chan))

ResumeReadingAct ==
    /\ SessionKnowsChannel
    /\ \E reacts \in ReactSeqs(Len(recv_buf)) :
           Becomes(ResumeReading(Chan, reacts))

\* _make_request is called by create() once _open has returned
MakeRequestAct ==
    /\ send_chan # None
    /\ Len(futures) < MaxWaiters
    /\ Becomes(MakeRequest(Chan))

\* a caller waiting for a response is cancelled
CancelRequestAct ==
    \E id \in 1..Len(futures) :
        /\ futures[id] = "pending"
        /\ futures' = [futures EXCEPT ![id] = "cancelled"]
        /\ raised' = "none"
        /\ UNCHANGED <<kind, peer_window, peer_pktsize, conn, session, send_state, send_chan,
                       send_window, send_pktsize, send_paused, send_buf,
                       send_buf_len, send_high_water, send_low_water,
                       recv_state, init_recv_window, recv_window,
                       recv_paused, recv_buf, open_waiter, request_waiters,
                       pc, shell_waiter, ready, disconnected, out, calls,
                       written,
                       peer_sent, accepted, since_adjust, responses,
                       granted, aborted_at, close_at, drain_cut, closes_in,
                       requests_in, close_waiters, open_result, recv_chan,
                       removed, lost, awaited, finishing, create_args,
                       pty_waiter, exit_status, options, term_modes,
                       dispatched, exit_arg, last_request, limits_arg,
                       encoding, recv_partial, term_type, term_size,
                       no_session, peer>>

\* the connection hands the channel a CHANNEL_DATA with a length of lens,
\* at most packets of them in all
ProcessDataOf(lens, packets) ==
    /\ Dispatched /\ Len(peer_sent) < packets
    /\ \E n \in lens, react \in Reactions :
           Becomes(ProcessData(Chan, Bytes(NumPeerSent + 1, NumPeerSent + n),
                               react))

ProcessDataAct == ProcessDataOf(1..MaxInLen, MaxInbound)

\* bytes of UTF-8 text: 'a', the two bytes of U+00E9, and a byte that is
\* valid nowhere
TextBytes == {97, 195, 169, 255}

MaxTextLen == 2       \* bytes of one inbound packet of text

MaxText    == 2       \* inbound packets of text

TextChunks == UNION {[1..n -> TextBytes] : n \in 1..MaxTextLen}

\* the connection hands the channel text, as CHANNEL_DATA or as
\* CHANNEL_EXTENDED_DATA for stderr, cut wherever the peer cut it
ProcessTextAct ==
    /\ Dispatched /\ Len(peer_sent) < MaxText
    /\ \E data \in TextChunks, react \in Reactions :
           \/ Becomes(ProcessData(Chan, data, react))
           \/ Becomes(ProcessExtendedData(Chan, EXTENDED_DATA_STDERR,
                                           data, react))

ProcessExtendedDataAct ==
    /\ Dispatched /\ Len(peer_sent) < MaxInbound
    /\ \E n \in 1..MaxInLen, react \in Reactions :
           Becomes(ProcessExtendedData(Chan, EXTENDED_DATA_STDERR,
                       Bytes(NumPeerSent + 1, NumPeerSent + n), react))

ProcessEofAct ==
    /\ Dispatched
    /\ \E react \in Reactions : Becomes(ProcessEof(Chan, react))

ProcessWindowAdjustAct ==
    /\ Dispatched
    /\ \E adjust \in 1..MaxAdjust :
           /\ send_window # None => send_window + adjust <= MaxWindow
           /\ Becomes(ProcessWindowAdjust(Chan, adjust))

ProcessCloseAct ==
    /\ Dispatched /\ closes_in < MaxInClose
    /\ Becomes(ProcessClose(Chan))

ProcessRequestAct ==
    /\ Dispatched /\ requests_in < MaxInRequests
    /\ \E request \in {"shell", "unknown"}, want_reply \in BOOLEAN,
          handler_result \in BOOLEAN, reacts \in ReactSeqs(Len(recv_buf)) :
           Becomes(ProcessRequest(Chan, request, want_reply,
                                  handler_result, reacts))

\* the commands and subsystem names a client asks for
Names == {"ls", "sftp", Undecodable}

\* an inbound shell, exec or subsystem request
ProcessSessionRequestAct ==
    /\ Dispatched /\ requests_in < MaxInSessionRequests
    /\ \E request \in {"shell", "exec", "subsystem"}, name \in Names,
          want_reply \in BOOLEAN, session_result \in BOOLEAN,
          reacts \in ReactSeqs(Len(recv_buf)) :
           Becomes(ProcessRequestNamed(Chan, request,
                       IF request = "shell" THEN <<>> ELSE <<name>>,
                       want_reply, session_result, reacts))

ProcessResponseAct ==
    /\ Dispatched /\ Len(responses) < MaxResponses
    /\ \E success \in BOOLEAN : Becomes(ProcessResponse(Chan, success))

\* the event loop runs a _cleanup scheduled by call_soon.  The loop runs
\* its callbacks in the order they were scheduled: the caller of _open,
\* woken by process_open_confirmation, runs before any _cleanup that a
\* later message scheduled.
RunCleanupAct ==
    /\ ready > 0 /\ pc # "opened"
    /\ \E stores_none \in BOOLEAN :
           Becomes(Cleanup([Chan EXCEPT !.ready = @ - 1], "None",
                           stores_none))

\* SSHChannel.process_connection_close: the transport is gone
ProcessConnectionCloseAct ==
    /\ conn
    /\ \E exc \in Excs, stores_none \in BOOLEAN :
           Becomes([Cleanup(Chan, exc, stores_none)
                       EXCEPT !.disconnected = TRUE])

ProcessOpenFailureAct ==
    /\ Dispatched
    /\ Becomes(ProcessOpenFailure(Chan))

\* the caller of open() (of create()) is cancelled while it waits
CancelOpenAct ==
    /\ pc = "open_wait" /\ open_waiter = "pending"
    /\ Becomes([Chan EXCEPT !.open_waiter = "cancelled",
                            !.open_result = "CancelledError",
                            !.pc = "failed"])

\* wait_closed() may be called by whoever holds the channel object
WaitClosedAct ==
    /\ Len(futures) < MaxTeardownWaiters
    /\ Becomes(WaitClosed(Chan))

\* SSHTCPChannel.connect / accept: _open_tcp up to the yield of _open
OpenTcpAct ==
    /\ kind = "tcp" /\ pc = "start"
    /\ Becomes(Open(Chan))

OpenTcpSessionAct ==
    /\ kind = "tcp" /\ pc = "opened"
    /\ \E reacts \in ReactSeqs(Len(recv_buf)) :
           Becomes(OpenTcpSession(Chan, reacts))

\* an inbound direct-tcpip / forwarded-tcpip open
ProcessOpenTcpAct ==
    /\ kind = "tcp" /\ pc = "start" /\ Dispatched
    /\ \E chan \in PeerChans :
           Becomes(ProcessOpen(Chan, chan, peer_window, peer_pktsize))

FinishOpenRequestTcpAct ==
    /\ kind = "tcp" /\ finishing > 0
    /\ \E session_ok \in BOOLEAN, reacts \in ReactSeqs(Len(recv_buf)) :
           Becomes(FinishOpenRequestTcp(Chan, session_ok, reacts))

\* --------------------------------------------------- the two ends together

\* the connection routes the packet pkt of the other end to the channel c:
\* the handler of its type (packet_handlers, process_open and the like);
\* window and pktsize are what the other end advertises in its OPEN or
\* OPEN_CONFIRMATION, react, reacts and session_result what the session
\* does in the callbacks
Deliver(c0, pkt, window, pktsize, react, reacts, session_result) ==
    LET c == [c0 EXCEPT !.dispatched = @ + 1] IN
    IF pkt.type = "OPEN" THEN ProcessOpen(c, 0, window, pktsize)
    ELSE IF pkt.type = "OPEN_CONFIRMATION"
    THEN ProcessOpenConfirmation(c, 0, window, pktsize)
    ELSE IF pkt.type = "OPEN_FAILURE" THEN ProcessOpenFailure(c)
    ELSE IF pkt.type = "DATA" THEN ProcessData(c, pkt.data, react)
    ELSE IF pkt.type = "EXTENDED_DATA"
    THEN ProcessExtendedData(c, pkt.datatype, pkt.data, react)
    ELSE IF pkt.type = "EOF" THEN ProcessEof(c, react)
    ELSE IF pkt.type = "WINDOW_ADJUST" THEN ProcessWindowAdjust(c, pkt.n)
    ELSE IF pkt.type = "CLOSE" THEN ProcessClose(c)
    ELSE IF pkt.type = "REQUEST"
    THEN ProcessRequestNamed(c, pkt.request, pkt.args, pkt.n = 1,
                             session_result, reacts)
    ELSE ProcessResponse(c, pkt.type = "SUCCESS")

\* the channel at the other end, before a call on it
PeerChan == [peer EXCEPT !.raised = "none", !.no_session = FALSE]

\* the state after a call on the other end that left the record p
PeerBecomes(p) ==
    /\ peer' = [p EXCEPT !.disconnected =
                             @ \/ p.raised = "DisconnectError"]
    /\ UNCHANGED own

\* the next packet the server sent reaches the client channel
ToClientAct ==
    /\ Dispatched /\ dispatched < Len(peer.out)
    /\ \E react \in {"none", "close"}, reacts \in ReactSeqs(Len(recv_buf)) :
           Becomes(Deliver(Chan, peer.out[dispatched + 1],
                           peer.init_recv_window, peer_pktsize,
                           react, reacts, FALSE))

\* the next packet the client sent reaches the server channel
ToServerAct ==
    /\ peer.conn /\ ~peer.disconnected /\ peer.dispatched < Len(out)
    /\ \E pktsize \in 1..MaxPktsize, session_result \in BOOLEAN :
           PeerBecomes(Deliver(PeerChan, out[peer.dispatched + 1],
                               init_recv_window, pktsize, "none",
                               [i \in 1..Len(peer.recv_buf) |-> "none"],
                               session_result))

\* the task of _finish_open_request on the server, with a session
ServerFinishOpenAct ==
    /\ peer.finishing > 0
    /\ PeerBecomes(FinishOpenRequest(PeerChan, TRUE))

\* the server session was told session_started
ServerStarted ==
    \E i \in 1..Len(peer.calls) : peer.calls[i].call = "session_started"

\* the server session, once started, writes
ServerWriteAct ==
    /\ ServerStarted
    /\ \E n \in 1..MaxWriteLen :
           LET written_so_far == Len(Concat(peer.written))
           IN /\ written_so_far + n <= MaxWritten
              /\ PeerBecomes(Write(PeerChan,
                                   Bytes(written_so_far + 1,
                                         written_so_far + n), None))

\* the exit statuses a server session reports
Statuses == {0, 255, 257}

\* the server session, once started, calls exit(status)
ServerExitAct ==
    /\ ServerStarted
    /\ Len(SelectType(peer.out, {"REQUEST"})) < MaxRequests
    /\ \E status \in Statuses :
           PeerBecomes(ExitStatus(PeerChan, status))

\* the server's event loop runs a scheduled _cleanup
ServerCleanupAct ==
    /\ peer.ready > 0
    /\ PeerBecomes(Cleanup([PeerChan EXCEPT !.ready = @ - 1], "None", TRUE))

\* a TCP channel, opened from either side
TcpHandshake ==
    \/ OpenTcpAct
    \/ ProcessOpenConfirmationAct
    \/ OpenTcpSessionAct
    \/ ProcessOpenTcpAct
    \/ FinishOpenRequestTcpAct

\* the channel is opened from this side (SSHClientChannel.create)
ClientHandshake ==
    \/ OpenAct
    \/ ProcessOpenConfirmationAct
    \/ CreateSessionAct
    \/ CreateStartAct

\* the channel is opened by the peer
ServerHandshake ==
    \/ ProcessOpenAct
    \/ FinishOpenRequestAct

Teardown ==
    \/ ProcessCloseAct
    \/ RunCleanupAct
    \/ ProcessConnectionCloseAct

Next ==
    \/ ClientHandshake
    \/ ServerHandshake
    \/ Teardown
    \/ WriteAct \/ WriteEofAct \/ CloseAct \/ AbortAct \/ ExitAct
    \/ SendRequestAct \/ ProcessWindowAdjustAct
    \/ SetWriteBufferLimitsAct
    \/ PauseReadingAct \/ ResumeReadingAct
    \/ ProcessDataAct \/ ProcessExtendedDataAct \/ ProcessEofAct
    \/ ProcessRequestAct
    \/ MakeRequestAct \/ CancelRequestAct \/ ProcessResponseAct

Spec == Init /\ [][Next]_vars

\* the send side: writes, flow control by the peer's window, close
NextSend ==
    \/ ServerHandshake
    \/ Teardown
    \/ WriteAct \/ WriteEofAct \/ CloseAct \/ AbortAct \/ ExitAct
    \/ SendRequestAct \/ ProcessWindowAdjustAct

InitSend ==
    Init /\ kind = "server" /\ init_recv_window = 1 /\ peer_window = 1
         /\ recv_chan = 1 /\ Alone

SpecSend == InitSend /\ [][NextSend]_vars

\* the receive side: inbound data, EOF, pause and resume, close
NextRecv ==
    \/ ClientHandshake
    \/ Teardown
    \/ CloseAct
    \/ PauseReadingAct \/ ResumeReadingAct
    \/ ProcessDataAct \/ ProcessExtendedDataAct \/ ProcessEofAct
    \/ ProcessResponseAct

InitRecv ==
    Init /\ kind = "client" /\ peer_window = 0 /\ peer_pktsize = 1
         /\ recv_chan = 1 /\ Alone

SpecRecv == InitRecv /\ [][NextRecv]_vars

\* requests and their responses
NextReq ==
    \/ ClientHandshake
    \/ Teardown
    \/ CloseAct
    \/ MakeRequestAct \/ CancelRequestAct \/ ProcessResponseAct

InitReq ==
    Init /\ kind = "client" /\ init_recv_window = 1
         /\ peer_window = 0 /\ peer_pktsize = 1 /\ recv_chan = 1
         /\ Alone

SpecReq == InitReq /\ [][NextReq]_vars

\* write flow control: the water marks, writes and the peer's window
NextFlow ==
    \/ ServerHandshake
    \/ Teardown
    \/ WriteAct \/ CloseAct \/ ProcessWindowAdjustAct
    \/ SetWriteBufferLimitsAct

InitFlow ==
    Init /\ kind = "server" /\ init_recv_window = 1
         /\ peer_window = 0 /\ peer_pktsize = 1 /\ recv_chan = 1
         /\ Alone

SpecFlow == InitFlow /\ [][NextFlow]_vars

\* graceful close against a peer that keeps to the protocol: it sends
\* WINDOW_ADJUST and CHANNEL_CLOSE only on a channel that is open, it keeps
\* granting window and it closes in the end; the event loop runs what
\* call_soon scheduled
PeerWindowAdjustAct ==
    /\ recv_state \in {"open", "eof_received"}
    /\ ProcessWindowAdjustAct

PeerCloseAct ==
    /\ recv_state \in {"open", "eof_received"}
    /\ ProcessCloseAct

NextClose ==
    \/ ServerHandshake
    \/ WriteAct \/ CloseAct
    \/ PeerWindowAdjustAct \/ PeerCloseAct
    \/ RunCleanupAct

InitClose ==
    Init /\ kind = "server" /\ init_recv_window = 1 /\ peer_window = 0
         /\ recv_chan = 1 /\ Alone

\* the steps of PeerWindowAdjustAct, PeerCloseAct and RunCleanupAct, told
\* by what they count: the window granted, the CLOSEs received, the
\* scheduled callbacks run
WindowGranted ==
    /\ recv_state \in {"open", "eof_received"} /\ Dispatched
    /\ send_window < MaxWindow
    /\ \E adjust \in 1..MaxAdjust : granted' = granted + adjust

CloseReceived ==
    /\ recv_state \in {"open", "eof_received"} /\ Dispatched
    /\ closes_in < MaxInClose
    /\ closes_in' = closes_in + 1

CleanupRun == ready > 0 /\ pc # "opened" /\ ready' = ready - 1

FairClose ==
    /\ WF_granted(WindowGranted)
    /\ WF_closes_in(CloseReceived)
    /\ WF_ready(CleanupRun)

SpecClose == InitClose /\ [][NextClose]_vars /\ FairClose

\* the calls a session makes on its channel, in every state of the channel
NextCalls ==
    \/ ClientHandshake
    \/ ServerHandshake
    \/ Teardown
    \/ WriteAct \/ WriteEofAct \/ CloseAct \/ AbortAct \/ ExitAct

InitCalls ==
    Init /\ kind \in {"client", "server"}
         /\ init_recv_window = 1 /\ peer_window = 1 /\ peer_pktsize = 1
         /\ recv_chan = 1 /\ Alone

SpecCalls == InitCalls /\ [][NextCalls]_vars

\* a second CHANNEL_OPEN routed to the channel
ProcessOpenAgainAct ==
    /\ kind = "server" /\ pc # "start" /\ Dispatched
    /\ NumSent({"OPEN_CONFIRMATION", "OPEN_FAILURE"}) + finishing < MaxInOpen
    /\ \E chan \in PeerChans :
           Becomes(ProcessOpen(Chan, chan, peer_window, peer_pktsize))

\* the requests create() makes before the shell request (pty-req, env)
TeardownRequestAct ==
    /\ kind = "client" /\ Len(futures) < MaxTeardownWaiters
    /\ MakeRequestAct

TeardownResponseAct ==
    /\ Len(responses) < MaxTeardownResponses
    /\ ProcessResponseAct

\* the peer repeats its CHANNEL_CLOSE
ProcessCloseAgainAct ==
    /\ Dispatched /\ closes_in >= MaxInClose /\ closes_in < MaxCloseAgain
    /\ Becomes(ProcessClose(Chan))

\* cleanup and what triggers it: CLOSE once or repeatedly, OPEN_FAILURE, a
\* failing session factory and the loss of the connection, in any order,
\* with the waiters of open(), of requests and of wait_closed()
NextCleanup ==
    \/ ClientHandshake
    \/ ServerHandshake
    \/ ProcessOpenFailureAct
    \/ TeardownRequestAct \/ TeardownResponseAct
    \/ WaitClosedAct
    \/ Teardown
    \/ ProcessCloseAgainAct

InitTeardown ==
    Init /\ kind \in {"client", "server"}
         /\ init_recv_window = 1 /\ peer_window = 0 /\ peer_pktsize = 1
         /\ Alone

SpecCleanup == InitTeardown /\ [][NextCleanup]_vars

\* teardown where callers are cancelled as well; the event loop runs what
\* call_soon scheduled
NextTeardown ==
    \/ NextCleanup
    \/ CancelOpenAct \/ CancelRequestAct

\* the caller of _open, woken by the confirmation, runs on
CallerResumed == pc = "opened" /\ pc' \in {"requested", "failed"}

SpecTeardown ==
    /\ InitTeardown /\ [][NextTeardown]_vars
    /\ WF_ready(CleanupRun) /\ WF_pc(CallerResumed)

\* inbound opens: the tasks of _finish_open_request with a session factory
\* that may suspend and may fail, a second CHANNEL_OPEN, the peer's CLOSE
\* and the loss of the connection in between
NextOpenRequest ==
    \/ ServerHandshake
    \/ ProcessOpenAgainAct
    \/ Teardown
    \/ WriteAct \/ CloseAct

InitOpenRequest == Init /\ kind = "server" /\ init_recv_window = 1 /\ Alone

SpecOpenRequest == InitOpenRequest /\ [][NextOpenRequest]_vars

\* create() with its env, pty-req and session requests against a peer that
\* answers or closes, the session closing and the connection being lost
NextCreate ==
    \/ OpenAct \/ ProcessOpenConfirmationAct
    \/ CreateRequestsAct \/ CreatePtyAct \/ CreateStartAct
    \/ ProcessResponseAct
    \/ CloseAct
    \/ Teardown

InitCreate ==
    Init /\ kind = "client" /\ init_recv_window = 1
         /\ peer_window = 0 /\ peer_pktsize = 1 /\ recv_chan = 1 /\ Alone

SpecCreate == InitCreate /\ [][NextCreate]_vars

\* a client channel and the server channel at the other end of its
\* connection: create() with its requests, the server session writing and
\* calling exit(status), both event loops, the packets of each end
\* reaching the other in order
NextEnds ==
    \/ OpenAct
    \/ CreateRequestsOf({[NoArgs EXCEPT !.request = "exec"]})
    \/ CreateStartAct
    \/ ToClientAct \/ ToServerAct
    \/ ServerFinishOpenAct \/ ServerWriteAct \/ ServerExitAct
    \/ RunCleanupAct \/ ServerCleanupAct

InitEnds ==
    Init /\ kind = "client" /\ peer \in Peers
         /\ peer.options = NoOptions /\ options = NoOptions
         /\ peer_window = 0 /\ peer_pktsize = 1 /\ recv_chan = 1
         /\ ~encoding

SpecEnds == InitEnds /\ [][NextEnds]_vars

\* a server channel on a connection whose key and certificate may force a
\* command: the open handshake, inbound session requests with any command
\* or subsystem name, the session closing, teardown
NextForced ==
    \/ ServerHandshake
    \/ ProcessSessionRequestAct
    \/ CloseAct
    \/ Teardown

InitForced ==
    Init /\ kind = "server" /\ peer = NoPeer /\ init_recv_window = 1
         /\ peer_window = 0 /\ peer_pktsize = 1 /\ recv_chan = 1
         /\ ~encoding

SpecForced == InitForced /\ [][NextForced]_vars

\* the water marks set to any values while the session writes and closes
NextLimits ==
    \/ ServerHandshake
    \/ SetLimitsAct
    \/ WriteAct \/ CloseAct

SpecLimits == InitFlow /\ [][NextLimits]_vars

\* a client channel asking for a terminal with a modes map and the server
\* channel that receives the pty-req
NextModes ==
    \/ OpenAct
    \/ CreateRequestsOf(ModeArgs)
    \/ CreatePtyAct \/ CreateStartAct
    \/ ToClientAct \/ ToServerAct
    \/ ServerFinishOpenAct

InitModes ==
    Init /\ kind = "client" /\ peer \in Peers /\ options = NoOptions
         /\ peer.init_recv_window = 1 /\ init_recv_window = 1
         /\ peer_window = 0 /\ peer_pktsize = 1 /\ recv_chan = 1
         /\ ~encoding

SpecModes == InitModes /\ [][NextModes]_vars

\* the receiving side with windows that take several packets to use up
ReplenishWindows    == {4, 5}

MaxReplenishLen     == 3

MaxReplenishPackets == 3

NextWindow ==
    \/ ClientHandshake
    \/ PauseReadingAct \/ ResumeReadingAct
    \/ ProcessDataOf(1..MaxReplenishLen, MaxReplenishPackets)
    \/ CloseAct
    \/ Teardown

InitWindow ==
    InitWindows(ReplenishWindows)
        /\ kind = "client" /\ peer_window = 0 /\ peer_pktsize = 1
        /\ recv_chan = 1 /\ Alone

SpecWindow == InitWindow /\ [][NextWindow]_vars

\* a window of 100 bytes and a peer that sends packets of 30 bytes, four
\* of them
ScenarioWindows == {100}

ScenarioLens    == {30}

ScenarioPackets == 4

NextHalving ==
    \/ ClientHandshake
    \/ ProcessResponseAct
    \/ PauseReadingAct \/ ResumeReadingAct
    \/ ProcessDataOf(ScenarioLens, ScenarioPackets)

InitHalving ==
    InitWindows(ScenarioWindows)
        /\ kind = "client" /\ peer_window = 0 /\ peer_pktsize = 1
        /\ recv_chan = 1 /\ Alone

SpecHalving == InitHalving /\ [][NextHalving]_vars

\* a client channel created with an encoding, receiving text
TextWindow == 4

NextText ==
    \/ ClientHandshake
    \/ ProcessResponseAct
    \/ ProcessTextAct \/ ProcessEofAct
    \/ ResumeReadingAct

InitText ==
    InitWindows({TextWindow})
        /\ kind = "client" /\ encoding /\ peer = NoPeer
        /\ options = NoOptions
        /\ peer_window = 0 /\ peer_pktsize = 1 /\ recv_chan = 1

SpecText == InitText /\ [][NextText]_vars

\* the session has been told session_started
SessionStarted ==
    \E i \in 1..Len(calls) : calls[i].call = "session_started"

\* the callbacks of a session that leaves reading alone until it is started
\* (it may pause in reaction to a delivery and resume later), for the three
\* kinds of channel: the handshakes, the shell request and its response,
\* inbound data and EOF, close and teardown
NextOrder ==
    \/ ClientHandshake
    \/ ServerHandshake
    \/ TcpHandshake
    \/ (kind = "client" /\ TeardownResponseAct)
    \/ (kind = "server" /\ ProcessRequestAct)
    \/ ProcessDataAct \/ ProcessEofAct
    \/ (SessionStarted /\ ResumeReadingAct)
    \/ CloseAct
    \/ Teardown

InitOrder ==
    Init /\ peer_window = 0 /\ peer_pktsize = 1 /\ recv_chan = 1 /\ Alone

SpecOrder == InitOrder /\ [][NextOrder]_vars

\* ----------------------------------------------------------------- claims

DataPackets == {"DATA", "EXTENDED_DATA"}

\* the bytes of a sequence of items or packets, each with its datatype
RECURSIVE Tagged(_)
Tagged(items) ==
    IF items = <<>> THEN <<>>
    ELSE [i \in 1..Len(Head(items).data) |->
              <<Head(items).data[i], Head(items).datatype>>]
         \o Tagged(Tail(items))

\* the packets a step hands to the connection
Emitted == SubSeq(out', Len(out) + 1, Len(out'))

\* C1: over any interleaving of close(), abort(), write(), inbound
\* WINDOW_ADJUST and inbound CHANNEL_CLOSE the channel emits CHANNEL_CLOSE
\* at most once.
C1_AtMostOneClose == NumSent({"CLOSE"}) <= 1

\* C2: after abort() the buffered data is discarded: no CHANNEL_DATA or
\* CHANNEL_EXTENDED_DATA follows the CLOSE that abort() sent, also not
\* after a later WINDOW_ADJUST.
C2_NoDataAfterAbort ==
    aborted_at > 0 =>
        \A i \in (aborted_at + 1)..Len(out) : out[i].type \notin DataPackets

C4_SendWindowRespected ==
    send_chan # None =>
        /\ send_window >= 0
        /\ send_window + Len(Concat(SelectType(out, DataPackets))) = granted
        /\ \A i \in 1..Len(out) :
               out[i].type \in DataPackets =>
                   Len(out[i].data) <= send_pktsize

\* C4 witness: a write was fragmented and the window is used up
C4_WindowExhausted ==
    /\ send_window = 0 /\ send_buf # <<>>
    /\ Len(SelectType(out, DataPackets)) >= 2

\* C9: the bytes emitted so far, with their datatypes, are a prefix of the
\* bytes written so far.
C9_EmittedPrefixOfWritten ==
    IsPrefix(Tagged(SelectType(out, DataPackets)), Tagged(written))

\* C10: EOF is emitted at most once, only after every byte written before
\* write_eof() was emitted, and no data packet follows it.
C10_EofAfterAllData ==
    /\ NumSent({"EOF"}) <= 1
    /\ \A i \in 1..Len(out) :
           out[i].type = "EOF" =>
               /\ Tagged(SelectType(SubSeq(out, 1, i), DataPackets))
                      = Tagged(written)
               /\ \A j \in (i + 1)..Len(out) : out[j].type \notin DataPackets

\* what the session was handed by data_received and eof_received, in call
\* order
RECURSIVE DeliveredItems(_)
DeliveredItems(cs) ==
    IF cs = <<>> THEN <<>>
    ELSE (IF Head(cs).call = "data_received"
          THEN <<[data |-> Head(cs).data, datatype |-> Head(cs).datatype]>>
          ELSE IF Head(cs).call = "eof_received"
          THEN <<[data |-> EOF, datatype |-> None]>>
          ELSE <<>>)
         \o DeliveredItems(Tail(cs))

\* the items of one datatype
RECURSIVE OfDatatype(_, _)
OfDatatype(items, datatype) ==
    IF items = <<>> THEN <<>>
    ELSE (IF Head(items).datatype = datatype /\ Head(items).data # EOF
          THEN <<Head(items)>> ELSE <<>>)
         \o OfDatatype(Tail(items), datatype)

\* C5: the inbound DATA + EXTENDED_DATA bytes accepted without a protocol
\* error since the last WINDOW_ADJUST the channel emitted (or since the
\* channel was opened) never exceed init_recv_window.
C5_AcceptedWithinWindow == since_adjust <= init_recv_window

\* C7: what data_received and eof_received were handed is a prefix of the
\* accepted packets in wire order, also across pause_reading and
\* resume_reading and a pause in the middle of a drain.
C7_DeliveredPrefixOfAccepted == IsPrefix(DeliveredItems(calls), accepted)

\* C7 witness: a drain was cut short by the session pausing, a later
\* resume_reading delivered the rest
C7_DrainCutAndResumed ==
    /\ drain_cut /\ recv_buf = <<>>
    /\ Len(accepted) >= 2 /\ DeliveredItems(calls) = accepted

\* C8 as stated: when the channel has been cleaned up, the data handed to
\* data_received is, per datatype, all the data that was accepted from the
\* peer.
C8_AllAcceptedDelivered ==
    (~conn /\ pc = "done") =>
        \A datatype \in Datatypes :
            Concat(OfDatatype(DeliveredItems(calls), datatype))
                = Concat(OfDatatype(accepted, datatype))

\* C8 amended: while the channel is attached to its connection, what was
\* delivered followed by what is buffered is exactly what was accepted;
\* nothing is lost or duplicated before the cleanup.
C8_DeliveredPlusBufferedIsAccepted ==
    conn => DeliveredItems(calls) \o recv_buf = accepted

\* C8 witness: part of the accepted data is delivered, part is buffered
C8_PartDeliveredPartBuffered ==
    /\ conn /\ recv_buf # <<>>
    /\ Concat(DeliveredItems(calls)) # <<>>
    /\ \E i \in 1..Len(recv_buf) : recv_buf[i].data # EOF

\* C6: the i-th inbound CHANNEL_SUCCESS / CHANNEL_FAILURE completes the
\* i-th request sent with a waiter (true for SUCCESS, false for FAILURE); a
\* cancelled waiter consumes its own response and stays cancelled; a
\* request whose response has not arrived is not completed by another's.
C6_ResponsesInOrder ==
    /\ Len(responses) <= Len(futures)
    /\ \A i \in 1..Len(responses) :
           futures[i] \in {"cancelled",
                           IF responses[i] THEN "true" ELSE "false"}
    /\ \A i \in (Len(responses) + 1)..Len(futures) :
           futures[i] \notin {"true", "false"}

\* the callbacks a step makes on the session
NewCalls == SubSeq(calls', Len(calls) + 1, Len(calls'))

\* C11: pause_writing() is called only when the writer was not paused and
\* send_buf_len > send_high_water, resume_writing() only when it was paused
\* and send_buf_len <= send_low_water, the two alternate starting with
\* pause_writing(), and no call returns with send_buf_len > send_high_water
\* and the writer not paused.
C11_WriterHysteresis ==
    [][/\ \A i \in 1..Len(WriterCalls(NewCalls)) :
              IF WriterCalls(NewCalls)[i] = "pause_writing"
              THEN ~send_paused /\ send_buf_len' > send_high_water'
              ELSE send_paused /\ send_buf_len' <= send_low_water'
       /\ \A i \in 1..Len(WriterCalls(calls')) :
              WriterCalls(calls')[i] =
                  IF i % 2 = 1 THEN "pause_writing" ELSE "resume_writing"
       /\ send_buf_len' > send_high_water' => send_paused'
      ]_vars

\* C11 witness: the writer was paused, resumed and paused again
C11_PausedTwice == Len(WriterCalls(calls)) >= 3 /\ send_paused

\* the channel has been cleaned up
CleanedUp ==
    /\ send_state = "closed" /\ recv_state = "closed"
    /\ ~conn /\ ~session
    /\ Len(CallNames(calls, {"connection_lost"})) = 1

AllWrittenEmitted ==
    Tagged(SelectType(out, DataPackets)) = Tagged(written)

\* C12 as stated: after close() on an open channel whose peer has not
\* closed yet, every byte written is eventually emitted, CHANNEL_CLOSE is
\* emitted and the channel is cleaned up.
C12_CloseFlushesAndCompletes ==
    (close_at > 0 /\ closes_in = 0)
        ~> (AllWrittenEmitted /\ NumSent({"CLOSE"}) >= 1 /\ CleanedUp)

\* C12 amended: after close() on an open channel whose peer has not closed
\* yet, CHANNEL_CLOSE is eventually emitted and the channel is cleaned up;
\* and when the channel's own CLOSE goes out before the peer's CLOSE
\* arrives, every byte written has been emitted before it.
C12_CloseCompletes ==
    /\ (close_at > 0 /\ closes_in = 0)
           ~> (NumSent({"CLOSE"}) >= 1 /\ CleanedUp)
    /\ []((send_state = "close_sent" /\ closes_in = 0) => AllWrittenEmitted)

\* C12 witness: close() left data in the buffer, the peer granted window,
\* the data and then the CLOSE went out, the peer closed and the channel was
\* cleaned up
C12_FlushedThenClosed ==
    /\ close_at > 0 /\ CleanedUp /\ AllWrittenEmitted
    /\ \E i \in (close_at + 1)..Len(out) : out[i].type \in DataPackets

\* the futures on which a caller is still suspended
Suspended == {id \in awaited : futures[id] = "pending"}

\* nobody waits on the channel any more and the session has been told
AllResumed == open_waiter # "pending" /\ Suspended = {} /\ ~session

\* a step of process_connection_close
ConnectionClosed ==
    ~disconnected /\ disconnected' /\ raised' # "DisconnectError"

\* C13: no caller stays suspended across teardown: once _cleanup is
\* scheduled it runs and leaves no pending open waiter, request waiter or
\* wait_closed waiter and no session that was not told connection_lost;
\* process_connection_close achieves the same within its own step
C13_TeardownResumesAll ==
    /\ (ready > 0) ~> AllResumed
    /\ [][ConnectionClosed => AllResumed']_vars

SessionMade == \E i \in 1..Len(calls) : calls[i].call = "connection_made"

HasCancelled ==
    \/ open_waiter = "cancelled"
    \/ \E i \in 1..Len(request_waiters) :
           futures[request_waiters[i]] = "cancelled"
    \/ \E i \in 1..Len(close_waiters) :
           futures[close_waiters[i]] = "cancelled"

\* C15: cleanup, OPEN_FAILURE and OPEN_CONFIRMATION tolerate cancelled
\* waiters: no step sets a result or an exception on a cancelled waiter (a
\* Future answers that with InvalidStateError, which ends the step), and
\* the cancelled waiters stay cancelled
C15_CancelledWaitersTolerated ==
    [][HasCancelled =>
          /\ raised' # "InvalidStateError"
          /\ \A id \in 1..Len(futures) :
                 futures[id] = "cancelled" => futures'[id] = "cancelled"]_vars

\* both directions of the channel are closed
Closed == send_state = "closed" /\ recv_state = "closed"

\* a step of wait_closed(): one more future, none of them a request waiter
WaitClosedStep ==
    /\ Len(futures') = Len(futures) + 1
    /\ request_waiters' = request_waiters

\* C16: wait_closed() returns at once exactly when the channel is already
\* closed, with or without a session ever installed; on a channel that is
\* not closed it suspends, and its waiter is resumed only by the cleanup
\* that closes the channel
C16_WaitClosedUntilCleanup ==
    /\ [][WaitClosedStep =>
             (futures'[Len(futures')] = "returned" <=> Closed)]_vars
    /\ [](\A id \in 1..Len(futures) : futures[id] = "done" => Closed)

\* what write, write_eof, close, abort and exit (exit_with_signal) would
\* leave when the holder of the channel called them now
LocalCalls ==
    {Write(Chan, Bytes(NumWritten + 1, NumWritten + n), datatype) :
         n \in 1..MaxWriteLen, datatype \in Datatypes}
    \cup {WriteEof(Chan), Close(Chan), Abort(Chan)}
    \cup (IF kind = "server" THEN {Exit(Chan)} ELSE {})

ConfirmationStep ==
    open_waiter = "pending" /\ send_state = "open_sent" /\ send_state' = "open"
FailureStep ==
    open_waiter = "pending" /\ open_waiter' = "None" /\ ready' = ready + 1

\* C18: the caller of open() is resumed once: with the confirmation exactly
\* when OPEN_CONFIRMATION is processed (then both states are open and the
\* peer's channel number, window and packet size are recorded), with
\* ChannelOpenError exactly when OPEN_FAILURE is processed (no protocol
\* error, and the channel ends closed and removed from the connection);
\* open() on a channel whose send_state is not closed raises and sends no
\* CHANNEL_OPEN
C18_OpenResumedOnce ==
    /\ [][open_result' # open_result => open_result = "none"]_vars
    /\ [][ConfirmationStep <=>
             (open_result = "none" /\ open_result' = "confirmation")]_vars
    /\ [][ConfirmationStep =>
             /\ recv_state' = "open" /\ send_chan' \in PeerChans
             /\ send_window' = peer_window
             /\ send_pktsize' = peer_pktsize]_vars
    /\ [][FailureStep <=>
             (open_result = "none" /\ open_result' = "ChannelOpenError")]_vars
    /\ [][FailureStep => (raised' = "none" /\ ~disconnected')]_vars
    /\ (open_result = "ChannelOpenError")
           ~> (Closed /\ ~conn /\ recv_chan = None)
    /\ [](send_state # "closed" =>
             (Open(Chan).raised = "OSError" /\ Open(Chan).out = out))

OpenAnswers == {"OPEN_CONFIRMATION", "OPEN_FAILURE"}

\* a step of one _finish_open_request task
FinishStep == finishing' = finishing - 1

\* C19: every inbound open that process_open handles starts one task, and
\* the task sends exactly one answer: OPEN_CONFIRMATION with the session
\* installed and both states open, or OPEN_FAILURE with _cleanup scheduled;
\* no other step sends an answer
C19_OneAnswerPerOpen ==
    /\ [][FinishStep =>
             /\ Len(out') = Len(out) + 1
             /\ out'[Len(out')].type \in OpenAnswers
             /\ out'[Len(out')].type = "OPEN_CONFIRMATION" =>
                    (session' /\ send_state' = "open" /\ recv_state' = "open")
             /\ out'[Len(out')].type = "OPEN_FAILURE" =>
                    ready' = ready + 1]_vars
    /\ [][NumSent(OpenAnswers)' # NumSent(OpenAnswers) => FinishStep]_vars
    /\ [][(send_state' = "open_received" /\ raised' = "none"
            /\ send_state # "open_received")
             => finishing' = finishing + 1]_vars

DataCalls == {"data_received", "eof_received"}

\* C20: for client, server and TCP channels alike the session's callbacks
\* come in order: connection_made is the first, session_started comes
\* before any data_received or eof_received, nothing follows
\* connection_lost; what arrived before session_started was buffered and
\* is delivered by the step that calls session_started, in arrival order,
\* up to a pause by the session
C20_CallbackOrder ==
    /\ [](calls # <<>> => calls[1].call = "connection_made")
    /\ [](\A i \in 1..Len(calls) :
             /\ calls[i].call \in DataCalls =>
                    \E j \in 1..(i - 1) : calls[j].call = "session_started"
             /\ calls[i].call = "connection_lost" => i = Len(calls))
    /\ [](~SessionStarted => DeliveredItems(calls) = <<>>)
    /\ [][(~SessionStarted /\ SessionStarted') =>
             /\ recv_buf' = <<>> \/ recv_paused'
             /\ DeliveredItems(calls') \o recv_buf' = accepted']_vars

\* the CHANNEL_REQUEST packets sent so far
Requests == SelectType(out, {"REQUEST"})

SessionRequests == {"exec", "subsystem", "shell"}

\* the requests create(args) sends when every reply is SUCCESS
Expected(args) ==
    [i \in 1..args.env |-> "env"]
    \o (IF args.term_type THEN <<"pty-req">> ELSE <<>>)
    \o <<args.request>>

SessionRequestSent ==
    \E i \in 1..Len(Requests) : Requests[i].request \in SessionRequests

\* the channel was cleaned up
TornDown == ~session /\ ~conn

\* C21: create() sends the env requests (no reply wanted), then pty-req
\* (only with a terminal type), then exactly one of exec / subsystem /
\* shell; the session request is sent only after pty-req was answered with
\* SUCCESS; on pty-req FAILURE create() closes the channel, raises
\* ChannelOpenError(REQUEST_PTY_FAILED) and sends no session request; on
\* FAILURE of the session request, or when the channel was closed while
\* the reply was awaited, it raises ChannelOpenError(REQUEST_SESSION_FAILED)
\* and session_started is never called.
C21_CreateSequence ==
    /\ [](/\ Len(Requests) <= Len(Expected(create_args))
          /\ \A i \in 1..Len(Requests) :
                 /\ Requests[i].request = Expected(create_args)[i]
                 /\ Requests[i].n =
                        (IF Requests[i].request = "env" THEN 0 ELSE 1)
          /\ (SessionRequestSent /\ create_args.term_type) =>
                 /\ futures[pty_waiter] = "true"
                 /\ \E i \in 1..Len(responses) : responses[i]
          /\ SessionStarted => futures[shell_waiter] = "true")
    /\ [][(pc = "pty_requested" /\ pc' # pc
             /\ futures[pty_waiter] = "false") =>
            /\ raised' = "ChannelOpenError(REQUEST_PTY_FAILED)"
            /\ send_state' \in Closing
            /\ SelectType(out', {"REQUEST"}) = Requests]_vars
    /\ [][(pc = "requested" /\ pc' # pc
             /\ (futures[shell_waiter] = "false" \/ TornDown)) =>
            /\ raised' = "ChannelOpenError(REQUEST_SESSION_FAILED)"
            /\ calls' = calls]_vars

\* the client session was told the exit status
ExitStatusReceived == NumCalls({"exit_status_received"}) > 0

\* C22: end to end, whatever window the client granted: the client session
\* observes all the data the server session wrote before exit(status)
\* through data_received, then exit_status_received(status & 0xff), then
\* connection_lost(None), in that order, and get_exit_status() then
\* returns status & 0xff; an exit() that is refused emits nothing.
C22_ExitObserved ==
    /\ [](\A i \in 1..Len(calls) : \A j \in (i + 1)..Len(calls) :
              /\ calls[i].call = "exit_status_received" =>
                     calls[j].call # "data_received"
              /\ calls[i].call = "connection_lost" =>
                     calls[j].call \notin {"data_received",
                                           "exit_status_received"})
    /\ [](ExitStatusReceived =>
              /\ Concat(DeliveredItems(calls)) = Concat(peer.written)
              /\ exit_status = peer.exit_arg % 256
              /\ \A i \in 1..Len(calls) :
                     calls[i].call = "exit_status_received" =>
                         calls[i].data = <<peer.exit_arg % 256>>
              /\ \A i \in 1..Len(lost) : lost[i] = "None")
    /\ [][peer'.raised = "OSError" => peer'.out = peer.out]_vars

\* the command the connection forces: the certificate's, else the key's
Forced ==
    IF options.force_command # "None" THEN options.force_command
    ELSE options.command

\* a step of _process_request that reaches the handler of a shell, exec or
\* subsystem request
SessionRequestStep ==
    /\ requests_in' = requests_in + 1
    /\ recv_state \in {"open", "eof_received"} /\ send_state \notin Closing

\* C23 as stated: with a forced command every inbound shell, exec or
\* subsystem request results in session.exec_requested(forced command), the
\* certificate's option before the key's, whatever command or subsystem
\* name the client supplied; shell_requested and subsystem_requested are
\* never called.
C23_ForcedCommandAlways ==
    [][(Forced # "None" /\ SessionRequestStep) =>
          /\ Len(calls') > Len(calls)
          /\ calls'[Len(calls) + 1] = Call("exec_requested", <<Forced>>, None)
      ]_vars

\* C23, amended: with a forced command every inbound shell, exec or
\* subsystem request whose command or subsystem name decodes results in
\* session.exec_requested(forced command), the certificate's option before
\* the key's, whatever the name; a request whose name does not decode
\* reaches no session callback; shell_requested and subsystem_requested
\* are never called.
C23_ForcedCommand ==
    /\ [][(Forced # "None" /\ SessionRequestStep) =>
             IF Undecodable \in {last_request'.args[i] :
                                     i \in 1..Len(last_request'.args)}
             THEN calls' = calls
             ELSE /\ Len(calls') > Len(calls)
                  /\ calls'[Len(calls) + 1] =
                         Call("exec_requested", <<Forced>>, None)]_vars
    /\ [](Forced # "None" =>
             \A i \in 1..Len(calls) :
                 /\ calls[i].call \notin {"shell_requested",
                                          "subsystem_requested"}
                 /\ calls[i].call = "exec_requested" =>
                        calls[i].data = <<Forced>>)

\* both options are set and a subsystem request was turned into the
\* certificate's command
C23_SubsystemForced ==
    /\ options.force_command # "None" /\ options.command # "None"
    /\ last_request.request = "subsystem"
    /\ last_request.args # <<Undecodable>>
    /\ NumCalls({"exec_requested"}) > 0

\* the marks set_write_buffer_limits(high, low) is to set
WantedMarks(high, low) ==
    IF high = None /\ low = None THEN <<65536, 16384>>
    ELSE IF high = None THEN <<4 * low, low>>
    ELSE IF low = None THEN <<high, high \div 4>>
    ELSE <<high, low>>

Marks == <<send_high_water, send_low_water>>

\* C24: set_write_buffer_limits(high, low) sets the marks to (65536, 16384)
\* when neither is given, (4*low, low) for low alone, (high, high div 4)
\* for high alone, (high, low) for both; a pair without 0 <= low <= high
\* is rejected and leaves the marks as they were, so that
\* 0 <= send_low_water <= send_high_water in every reachable state.
C24_WriteBufferLimits ==
    /\ [][limits_arg' # limits_arg =>
            LET want == WantedMarks(limits_arg'[1], limits_arg'[2])
            IN IF 0 <= want[2] /\ want[2] <= want[1]
               THEN Marks' = want /\ raised' # "ValueError"
               ELSE Marks' = Marks /\ raised' = "ValueError"]_vars
    /\ [](0 <= send_low_water /\ send_low_water <= send_high_water)

\* marks that were set are kept by a call that is rejected
C24_RejectedKeepsMarks ==
    /\ raised = "ValueError"
    /\ Marks = <<5, 1>>
    /\ limits_arg \in {<<-2, None>>, <<0, 1>>, <<None, -2>>}

\* the map whose items() yields items
ModeMap(items) ==
    [m \in {items[i][1] : i \in 1..Len(items)} |->
        items[CHOOSE i \in 1..Len(items) : items[i][1] = m][2]]

\* the server channel has handled a pty-req it may grant
PtyReqDecoded ==
    /\ peer.last_request.request = "pty-req"
    /\ peer.options.pty

\* C25: a terminal modes map with opcodes between 1 and 159 and values of
\* 32 bits, encoded by create() and decoded by the server's pty-req handler
\* on a fresh channel, comes out as the same map, whatever the order of the
\* items; this is also the map the session's pty_requested receives
C25_ModesRoundTrip ==
    PtyReqDecoded =>
        /\ peer.term_modes = ModeMap(create_args.term_modes)
        /\ peer.raised = "none"
        /\ \E i \in 1..Len(peer.calls) :
               /\ peer.calls[i].call = "pty_requested"
               /\ peer.calls[i].data = ModeMap(create_args.term_modes)

\* two modes, one of them with the largest value of 31 bits, were decoded
C25_TwoModesDecoded ==
    /\ PtyReqDecoded
    /\ Len(create_args.term_modes) = 2
    /\ create_args.term_modes[1] = <<PTY_OP_RESERVED - 1, 2147483647>>
    /\ create_args.term_modes[2] = <<1, 256>>
    /\ peer.term_modes = ModeMap(create_args.term_modes)

\* C26: get_write_buffer_size() is the number of bytes waiting: send_buf_len
\* is always the sum of the lengths of the chunks in send_buf, and never
\* negative, after any writes, partial flushes, window adjustments, close,
\* abort and inbound CLOSE
C26_BufferSize ==
    /\ send_buf_len = Len(Concat(send_buf))
    /\ send_buf_len >= 0

\* a partial flush left the rest of a written chunk at the head of send_buf
C26_PartOfChunkWaiting ==
    /\ send_buf # <<>>
    /\ \E i \in 1..Len(written) :
           LET whole == written[i].data
               rest  == Head(send_buf).data
           IN /\ Len(rest) < Len(whole)
              /\ rest = SubSeq(whole, Len(whole) - Len(rest) + 1, Len(whole))
    /\ send_buf_len = Len(Concat(send_buf))

\* C27: after close() or abort() no incoming data reaches the session: no
\* call starting with send_state close_pending, close_sent or closed invokes
\* data_received or eof_received, whether the data arrives then or was
\* waiting in recv_buf for resume_reading()
C27_NoDataAfterClose ==
    [][(send_state \in Closing) =>
          (\A i \in (Len(calls) + 1)..Len(calls') :
               calls'[i].call \notin DataCalls)]_vars

\* a data packet of the peer is handled in this step
DataArrives ==
    /\ Len(peer_sent') = Len(peer_sent) + 1
    /\ peer_sent'[Len(peer_sent')].data # EOF

\* C28: whenever recv_state is open and an inbound data packet with a
\* datatype the channel reads is longer than recv_window, the channel raises
\* the protocol error "Window exceeded", whatever send_state is: data
\* dropped because the local side is closing is still held to the window
C28_WindowCheckedFirst ==
    [][(/\ DataArrives
        /\ recv_state = "open"
        /\ peer_sent'[Len(peer_sent')].datatype
               \in {None} \cup ReadDatatypes(kind)
        /\ Len(peer_sent'[Len(peer_sent')].data) > recv_window)
       => raised' = "DisconnectError"]_vars

\* the calls the step makes to data_received
IsDataReceived(call) == call.call = "data_received"

NewDataReceived == SelectSeq(NewCalls, IsDataReceived)

\* the amounts of the WINDOW_ADJUST packets the step emits
NewAdjusts ==
    LET new == SelectType(SubSeq(out', Len(out) + 1, Len(out')),
                          {"WINDOW_ADJUST"})
    IN [i \in 1..Len(new) |-> new[i].n]

\* the window and the WINDOW_ADJUST amounts after the deliveries, by the
\* rule: debit the length; below half of init, adjust by init minus the
\* window and restore init
RECURSIVE Replenished(_, _, _)
Replenished(window, init, delivered) ==
    IF delivered = <<>> THEN [window |-> window, adjusts |-> <<>>]
    ELSE LET debited == window - Len(Head(delivered).data)
             low     == 2 * debited < init
             rest    == Replenished(IF low THEN init ELSE debited, init,
                                    Tail(delivered))
         IN [window  |-> rest.window,
             adjusts |-> (IF low THEN <<init - debited>> ELSE <<>>)
                         \o rest.adjusts]

\* C29: each delivered data packet debits recv_window by its length; a
\* WINDOW_ADJUST is emitted exactly when the debit leaves recv_window below
\* init_recv_window/2, it carries init_recv_window minus recv_window, and
\* recv_window is then init_recv_window again; a packet that arrives while
\* reading is paused brings no WINDOW_ADJUST; after every delivery
\* init_recv_window/2 <= recv_window <= init_recv_window
C29_Replenishment ==
    [][LET wanted == Replenished(recv_window, init_recv_window,
                                 NewDataReceived)
       IN /\ NewAdjusts = wanted.adjusts
          /\ NewDataReceived # <<>> =>
                 /\ recv_window' = wanted.window
                 /\ 2 * recv_window' >= init_recv_window
                 /\ recv_window' <= init_recv_window
          /\ (recv_paused /\ DataArrives) => NewAdjusts = <<>>]_vars

\* a delivery left the window at half or more and sent no WINDOW_ADJUST,
\* the next one sent it
C29_AdjustAfterSecond ==
    /\ Len(CallNames(calls, {"data_received"})) >= 2
    /\ NumSent({"WINDOW_ADJUST"}) = 1
    /\ recv_window = init_recv_window

\* the packets delivered to the session so far, and the amounts of the
\* WINDOW_ADJUST packets sent so far
NumDelivered == Len(CallNames(calls, {"data_received"}))

Adjusts ==
    LET sent == SelectType(out, {"WINDOW_ADJUST"})
    IN [i \in 1..Len(sent) |-> sent[i].n]

\* C30 as stated: with init_recv_window 100 and packets of 30 bytes, after
\* the third delivered packet (90 bytes) the channel has emitted exactly one
\* WINDOW_ADJUST, of 90, and the window is 100 again; none is emitted
\* before 50 bytes
C30_OneAdjustOfNinety ==
    /\ NumDelivered = 3 => Adjusts = <<90>> /\ recv_window = 100
    /\ NumDelivered * 30 < 50 => Adjusts = <<>>

\* C30 as the code has it: the second packet (60 bytes) takes the window
\* from 70 to 40, below 50, and brings WINDOW_ADJUST(60) and a window of
\* 100; after the third packet that is still the only WINDOW_ADJUST and the
\* window is 70; the fourth brings a second WINDOW_ADJUST(60); none is
\* emitted before 50 bytes
C30_OneAdjustOfSixty ==
    /\ NumDelivered = 2 => Adjusts = <<60>> /\ recv_window = 100
    /\ NumDelivered = 3 => Adjusts = <<60>> /\ recv_window = 70
    /\ NumDelivered = 4 => Adjusts = <<60, 60>> /\ recv_window = 100
    /\ NumDelivered * 30 < 50 => Adjusts = <<>> /\ recv_window >= 70

\* three packets have arrived and been delivered, reading is not paused
C30_ThirdDelivered ==
    /\ NumDelivered = 3 /\ Len(peer_sent) = 3
    /\ ~recv_paused /\ recv_buf = <<>>
    /\ Adjusts = <<60>> /\ recv_window = 70

\* the edges of the receive state machine
RecvEdges ==
    {<<"closed", "open">>, <<"open", "eof_received">>,
     <<"eof_received", "closed">>, <<"open", "closed">>}

\* the calls of data_received and eof_received, by name, so far
DataCallNames == CallNames(calls, DataCalls)

\* in this state every inbound DATA, EXTENDED_DATA and EOF is refused with
\* a protocol error
InboundRefused ==
    /\ \A n \in 1..MaxInLen, react \in Reactions :
           /\ ProcessData(Chan, Bytes(NumPeerSent + 1, NumPeerSent + n),
                          react).raised = "DisconnectError"
           /\ ProcessExtendedData(Chan, EXTENDED_DATA_STDERR,
                                  Bytes(NumPeerSent + 1, NumPeerSent + n),
                                  react).raised = "DisconnectError"
    /\ \A react \in Reactions :
           ProcessEof(Chan, react).raised = "DisconnectError"

IsDataCall(call) == call.call \in DataCalls

\* resume_reading (or the resume of create()) empties a recv_buf that
\* holds one data packet and then EOF
DrainsDataThenEof ==
    /\ recv_paused /\ ~recv_paused'
    /\ Len(recv_buf) = 2 /\ recv_buf[1].data # EOF /\ recv_buf[2].data = EOF
    /\ Len(recv_buf') = 0 /\ raised' = "none"

\* C31: recv_state changes only along closed -> open -> eof_received ->
\* closed or closed -> open -> closed; once EOF has been accepted any
\* further inbound DATA, EXTENDED_DATA or EOF raises a protocol error, also
\* while reading is paused; the session gets eof_received at most once and
\* no data_received after it; with DATA(abc), EOF buffered while reading is
\* paused, resuming delivers data_received(abc) and then eof_received()
C31_ReceiveStates ==
    /\ [][recv_state' # recv_state =>
              <<recv_state, recv_state'>> \in RecvEdges]_vars
    /\ [](recv_state = "eof_received" => InboundRefused)
    /\ [](\A i \in 1..Len(DataCallNames) :
              DataCallNames[i] = "eof_received" => i = Len(DataCallNames))
    /\ [][DrainsDataThenEof =>
              SelectSeq(NewCalls, IsDataCall)
                  = <<Call("data_received", recv_buf[1].data,
                           recv_buf[1].datatype),
                      Call("eof_received", <<>>, None)>>]_vars

\* data that waited with an EOF behind it while reading was paused has
\* been delivered, and then the EOF; a further EOF would be refused
C31_DataThenEofDelivered ==
    /\ recv_state = "eof_received" /\ ~recv_paused /\ recv_buf = <<>>
    /\ calls = <<Call("connection_made", <<>>, None),
                 Call("session_started", <<>>, None),
                 Call("data_received", Bytes(1, MaxInLen), None),
                 Call("eof_received", <<>>, None)>>
    /\ InboundRefused

\* the step delivers the EOF to _deliver_data: eof_received is called, or
\* the protocol error is raised with the EOF accepted and not left waiting
EofCalled == \E i \in 1..Len(NewCalls) : NewCalls[i].call = "eof_received"

\* C32: on a channel with an encoding, when EOF is delivered while the
\* tail of an incomplete character is held in recv_partial for any
\* datatype, plain or stderr, the channel raises a protocol error and does
\* not call eof_received: no step calls eof_received and leaves a tail held
C32_EofWithTailRefused ==
    [][EofCalled => DOMAIN recv_partial' = {}]_vars

\* the edges of the send state machine, the shortcut of abort() among them
SendEdges ==
    {<<"closed", "open_sent">>, <<"open_sent", "open">>,
     <<"closed", "open_received">>, <<"open_received", "open">>,
     <<"open", "eof_pending">>, <<"eof_pending", "eof_sent">>,
     <<"open", "close_pending">>, <<"eof_pending", "close_pending">>,
     <<"eof_sent", "close_pending">>, <<"close_pending", "close_sent">>,
     <<"open", "close_sent">>, <<"eof_pending", "close_sent">>,
     <<"eof_sent", "close_sent">>}

\* what one call may do to send_state: one edge, or the two edges of a
\* write_eof() on an empty buffer (the two edges of close() and exit() on
\* an empty buffer end where the shortcut of abort() ends)
SendSteps == SendEdges \cup {<<"open", "eof_sent">>}

LateMessageAct ==
    /\ ~conn /\ ~disconnected /\ recv_chan = 0
    /\ \/ Becomes(ProcessClose(Chan))
       \/ Becomes(ProcessEof(Chan, "none"))
       \/ Becomes(ProcessData(Chan, Bytes(NumPeerSent + 1, NumPeerSent + 1),
                              "none"))
       \/ Becomes(ProcessWindowAdjust(Chan, 1))
       \/ Becomes(ProcessRequest(Chan, "shell", TRUE, TRUE, <<>>))
       \/ Becomes(ProcessResponse(Chan, TRUE))
       \/ Becomes(ProcessOpenFailure(Chan))
       \/ \E chan \in PeerChans :
              Becomes(ProcessOpenConfirmation(Chan, chan, peer_window,
                                              peer_pktsize))

\* the life of a channel and what follows it: the handshake from either
\* side, the calls of the session before and after cleanup, and inbound
\* messages before and after cleanup
NextAfter ==
    \/ ClientHandshake
    \/ ServerHandshake
    \/ Teardown
    \/ WriteAct \/ WriteEofAct \/ CloseAct \/ AbortAct
    \/ ResumeReadingAct
    \/ ProcessEofAct
    \/ LateMessageAct

InitAfter ==
    Init /\ init_recv_window = 1 /\ peer_window = 1 /\ peer_pktsize = 1
         /\ Alone

SpecAfter == InitAfter /\ [][NextAfter]_vars

ProcessExitStatusAct ==
    /\ Dispatched /\ kind = "client" /\ requests_in < MaxInSessionRequests
    /\ \E status \in Statuses, want_reply \in BOOLEAN :
           Becomes(ProcessRequestNamed(Chan, "exit-status",
                                       UInt32(status % 256), want_reply,
                                       TRUE, <<>>))

\* the session writes one byte, which waits for the peer's window
WriteOnceAct ==
    /\ SessionKnowsChannel /\ written = <<>>
    /\ Becomes(Write(Chan, Bytes(1, 1), None))

\* inbound requests of every name on client and server channels, before
\* and after the session closes the channel, with data still to be sent
NextReplies ==
    \/ ClientHandshake
    \/ ServerHandshake
    \/ ProcessSessionRequestAct
    \/ ProcessExitStatusAct
    \/ WriteOnceAct \/ CloseAct
    \/ ProcessCloseAct \/ RunCleanupAct

InitReplies ==
    Init /\ init_recv_window = 1 /\ peer_window = 0 /\ peer_pktsize = 1
         /\ recv_chan = 1 /\ Alone

SpecReplies == InitReplies /\ [][NextReplies]_vars

\* the requests the peer may send: name, arguments, want_reply, and what
\* the session answers when the handler asks it
RequestInputs ==
    [request : {"shell", "exec", "subsystem"}, args : {<<>>} \cup
                  {<<name>> : name \in Names},
     want_reply : BOOLEAN, result : BOOLEAN]
    \cup [request : {"exit-status"},
          args : {UInt32(status % 256) : status \in Statuses},
          want_reply : BOOLEAN, result : {TRUE}]

\* the step is _process_request handling the request r
RequestStep(r) ==
    /\ requests_in' = requests_in + 1
    /\ last_request' = [request |-> r.request, args |-> r.args]
    /\ \E reacts \in ReactSeqs(Len(recv_buf)) :
           Becomes(ProcessRequestNamed(Chan, r.request, r.args, r.want_reply,
                                       r.result, reacts))

\* the types of the replies the step hands to the connection
NewReplies ==
    LET new == SelectType(SubSeq(out', Len(out) + 1, Len(out')),
                          {"SUCCESS", "FAILURE"})
    IN [i \in 1..Len(new) |-> new[i].type]

\* what the handler of r yields on the channel as it is
HandlerOutcome(r) == HandleRequest(Chan, r.request, r.args, r.result)

\* the reply the claim wants for r
ReplyWanted(r) ==
    IF ~r.want_reply THEN <<>>
    ELSE IF HandlerOutcome(r).result THEN <<"SUCCESS">> ELSE <<"FAILURE">>

\* replies are handed to the connection only by the step that handles
\* their request, so they leave in the order the requests arrived
RepliesInStep ==
    [][NewReplies # <<>> => requests_in' = requests_in + 1]_vars

PtyTypes == {TermType, Undecodable}
PtySizes == {TermSize, <<0, 0, 0, 0>>}
PtyModes == {Byte(PTY_OP_END),
             Byte(1) \o UInt32(256) \o Byte(PTY_OP_END)}

\* an inbound pty-req on a server channel
ProcessPtyReqAct ==
    /\ Dispatched /\ kind = "server" /\ requests_in < MaxInSessionRequests
    /\ \E term \in PtyTypes, size \in PtySizes, modes \in PtyModes,
          want_reply \in BOOLEAN, session_result \in BOOLEAN :
           Becomes(ProcessRequestNamed(Chan, "pty-req",
                                       <<term, size, modes>>, want_reply,
                                       session_result, <<>>))

\* a server channel on a connection whose key and certificate may deny
\* 'pty', receiving pty-req requests
NextPty ==
    \/ ServerHandshake
    \/ ProcessPtyReqAct
    \/ CloseAct
    \/ Teardown

InitPty ==
    Init /\ kind = "server" /\ peer = NoPeer /\ init_recv_window = 1
         /\ peer_window = 0 /\ peer_pktsize = 1 /\ recv_chan = 1
         /\ options.force_command = "None" /\ options.command = "None"
         /\ ~encoding

SpecPty == InitPty /\ [][NextPty]_vars

\* the pty-req requests the peer may send
PtyInputs ==
    [request : {"pty-req"}, args : PtyTypes \X PtySizes \X PtyModes,
     want_reply : BOOLEAN, result : BOOLEAN]

\* C36: on a connection whose key or certificate denies 'pty', a pty-req
\* is answered with FAILURE if it wants a reply and with nothing if not,
\* pty_requested is never called, and the terminal type, size and modes
\* the channel reports stay None, (0, 0, 0, 0) and empty
C36_DeniedPtyLeavesNothing ==
    /\ [](~options.pty =>
              /\ term_type = "None"
              /\ term_size = <<0, 0, 0, 0>>
              /\ term_modes = <<>>
              /\ NumCalls({"pty_requested"}) = 0
              /\ NumSent({"SUCCESS"}) = 0)
    /\ [][\A r \in PtyInputs :
              (~options.pty /\ recv_state \in {"open", "eof_received"}
                   /\ send_state \notin Closing
                   /\ r.args[1] # Undecodable /\ RequestStep(r))
                  => NewReplies = IF r.want_reply THEN <<"FAILURE">>
                                  ELSE <<>>]_vars


\* C37: the connection's table holds the channel from construction until
\* _cleanup and not afterwards, whatever number the connection gave it:
\* while the channel has its connection no remove_channel was called, and
\* once _cleanup has let the connection go remove_channel was called once
\* and the channel has forgotten its number
C37_TableConsistent ==
    /\ conn => (removed = 0 /\ recv_chan \in RecvChans)
    /\ ~conn => (removed = 1 /\ recv_chan = None)


\* what follows the loop of _flush_send_buf once its test fails (lines
\* 172-180); while the test holds the loop goes on
FlushRest(c) ==
    IF c.raised # "none" \/ LoopCondition(c) THEN c
    ELSE FlushTail(PauseResumeWriting(c))

\* write() up to the first test of the loop of _flush_send_buf
WriteEnterAct ==
    /\ SessionKnowsChannel /\ send_state = "open" /\ ~LoopCondition(Chan)
    /\ \E n \in 1..MaxWriteLen :
           /\ NumWritten + n <= MaxWritten
           /\ LET item == [data |-> Bytes(NumWritten + 1, NumWritten + n),
                           datatype |-> None]
              IN Becomes(FlushRest([Chan EXCEPT
                                       !.send_buf = Append(@, item),
                                       !.send_buf_len = @ + n,
                                       !.written = Append(@, item)]))

\* _process_window_adjust up to the first test of the loop
AdjustEnterAct ==
    /\ Dispatched /\ recv_state \in {"open", "eof_received"}
    /\ ~LoopCondition(Chan)
    /\ \E adjust \in 1..MaxAdjust :
           /\ send_window + adjust <= MaxWindow
           /\ Becomes(FlushRest([Chan EXCEPT !.send_window = @ + adjust,
                                             !.granted = @ + adjust]))

\* one pass of the loop of _flush_send_buf, and what follows the loop if
\* that pass was the last
FlushIterAct ==
    /\ LoopCondition(Chan) /\ Len(out) < MaxLoopOut
    /\ Becomes(FlushRest(FlushIteration(Chan)))

\* the send path with the loop of _flush_send_buf taken pass by pass; the
\* peer advertises any window and any packet size, 0 among them.  Nothing
\* else runs while the loop does.
NextLoop ==
    \/ /\ ~LoopCondition(Chan)
       /\ \/ ClientHandshake
          \/ ServerHandshake
          \/ ProcessResponseAct
    \/ WriteEnterAct
    \/ AdjustEnterAct
    \/ FlushIterAct

InitLoop ==
    InitSizes({1}, 0..MaxPktsize)
        /\ kind \in {"client", "server"} /\ recv_chan = 1 /\ Alone

SpecLoop == InitLoop /\ [][NextLoop]_vars

\* C38: every pass of the loop of _flush_send_buf takes at least one byte
\* out of send_buf, so the loop ends after at most send_buf_len passes and
\* write() and the processing of WINDOW_ADJUST return, for any window and
\* any packet size the peer advertised
C38_FlushProgress ==
    [][LoopCondition(Chan) => send_buf_len' < send_buf_len]_vars


\* set_write_buffer_limits(high=0), which pauses the writer as soon as a
\* byte waits, and set_write_buffer_limits(), which restores the defaults
SetMarksAct ==
    /\ SessionKnowsChannel
    /\ Len(WriterCalls(calls)) < MaxMarkCalls
    /\ \E high \in {None, 0} :
           Becomes(SetWriteBufferLimits(Chan, high, None))

\* inbound messages and calls of the session in any order with the open
\* handshake and with teardown: requests, data and EOF from the moment
\* the channel is open, resume_reading() and set_write_buffer_limits()
\* also after _cleanup
NextSession ==
    \/ OpenAct \/ ProcessOpenConfirmationAct \/ CreateSessionAct
    \/ ServerHandshake
    \/ (requests_in = 0 /\ ProcessExitStatusAct)
    \/ ProcessDataOf({1}, 1) \/ ProcessEofAct
    \/ WriteOnceAct
    \/ SetMarksAct
    \/ ResumeReadingAct
    \/ ProcessCloseAct \/ RunCleanupAct

InitSession ==
    Init /\ kind \in {"client", "server"} /\ init_recv_window = MaxRecvWindow
         /\ peer_window = 0 /\ peer_pktsize = 1 /\ recv_chan = 1 /\ Alone

SpecSession == InitSession /\ [][NextSession]_vars

\* C39: no call on the channel tries a callback on a session that is not
\* installed, whatever the order of inbound messages, calls of the session,
\* the open handshake and teardown
C39_CallbacksOnSession == ~no_session

====
